---- MODULE Spec2Model ----
(***************************************************************************)
(* Piece-grouping and batch-spawn engine of the block puzzle:              *)
(*   utils/pieceMath.ts, utils/batchManager.ts, hooks/useGamePieces.ts,    *)
(*   hooks/usePieceInteraction.ts and the App screen switch.               *)
(*                                                                         *)
(* World coordinates are JavaScript numbers in the code; here they are     *)
(* integers (whole pixels).  Math.cos / Math.sin are a fixed-point table   *)
(* (value * 1000) at multiples of a quarter radian; the probing loop turns *)
(* by two of them per attempt.  Pointer events on pieces are given in world *)
(* coordinates: the handlers convert client coordinates with the current   *)
(* pan and zoom.  Pan and zoom of hooks/useViewportTransform.ts are        *)
(* JavaScript numbers: IEEE 754 binary64 values with the rounding of every *)
(* operation.  The sessions that explore the pieces leave the viewport     *)
(* alone, and the session that explores the viewport leaves the pieces     *)
(* where they spawn.                                                       *)
(***************************************************************************)
EXTENDS Integers, Sequences, FiniteSets, TLC

\* ---------------------------------------------------------------- bounds
\* number of piece definitions of a short session (one batch)
SmallDefs == 3
\* number of piece definitions of a session with more than one batch
NumDefs == 6
\* number of pointer moves of a session that aim at no snap position
MaxStrays == 1
\* granularity of the clock that runs the two setTimeout delays
TickMs == 250

\* number of wheel, two-finger start and move, and reset events of a session
MaxGestures == 3

\* ------------------------------------------------------ program constants
BLOCK_SIZE == 100
SNAP_THRESHOLD == 50
BATCH_SIZE == 5
MARGIN == 40
SPAWN_RADIUS_BASE == 100
SPAWN_RADIUS_INCREMENT == 50
MAX_PLACEMENT_ATTEMPTS == 50
MIN_SPAWN_RADIUS == 500
ATTEMPT_RADIUS_STEP == 20
FALLBACK_DISTANCE == 1000
FALLBACK_STEP == 200
BATCH_DELAY_MS == 500
COMPLETE_DELAY_MS == 1000
MISMATCH_RADIUS == 150
Z_DRAGGED == 100
Z_DEMOTED == 50
Z_RESET == 10
Z_SPAWN_BASE == 10
PADDING == 100

\* the 16 tetrominoes of the 8x8 grid: id, origin cell, bounding box in cells
PIECE_DEFINITIONS ==
  << [id |-> 1,  ox |-> 0, oy |-> 0, width |-> 2, height |-> 2],
     [id |-> 2,  ox |-> 2, oy |-> 0, width |-> 2, height |-> 2],
     [id |-> 3,  ox |-> 4, oy |-> 0, width |-> 3, height |-> 2],
     [id |-> 4,  ox |-> 5, oy |-> 0, width |-> 3, height |-> 2],
     [id |-> 5,  ox |-> 0, oy |-> 2, width |-> 4, height |-> 1],
     [id |-> 6,  ox |-> 0, oy |-> 3, width |-> 4, height |-> 1],
     [id |-> 7,  ox |-> 4, oy |-> 2, width |-> 3, height |-> 2],
     [id |-> 8,  ox |-> 5, oy |-> 2, width |-> 3, height |-> 2],
     [id |-> 9,  ox |-> 0, oy |-> 4, width |-> 3, height |-> 2],
     [id |-> 10, ox |-> 1, oy |-> 4, width |-> 3, height |-> 2],
     [id |-> 11, ox |-> 4, oy |-> 4, width |-> 4, height |-> 1],
     [id |-> 12, ox |-> 4, oy |-> 5, width |-> 4, height |-> 1],
     [id |-> 13, ox |-> 0, oy |-> 6, width |-> 3, height |-> 2],
     [id |-> 14, ox |-> 1, oy |-> 6, width |-> 3, height |-> 2],
     [id |-> 15, ox |-> 4, oy |-> 6, width |-> 2, height |-> 2],
     [id |-> 16, ox |-> 6, oy |-> 6, width |-> 2, height |-> 2] >>

\* ------------------------------------------------------------------ state
VARIABLES
  pieceDefinitions,  \* Game: the pieceDefinitions prop, a prefix of the table
  pieces,            \* useGamePieces: the PieceState list
  batchIndex,        \* useGamePieces: index of the last spawned batch
  isGameComplete,    \* useGamePieces: flag set by the completion effect
  timer,             \* the pending setTimeout of the completion effect
  drag,              \* usePieceInteraction: dragRef.current
  mismatchLine,      \* usePieceInteraction: << >> is null, else << p1, p2 >>
  imageUrl,          \* Game: the session's image reference
  screen,            \* App: "game" while Game is mounted, "end" afterwards
  completedImageUrl, \* App: the argument of the completion callback
  completions,       \* number of calls of the completion callback
  lastBatch,         \* result of the latest generateBatchPieces call
  lastRelease,       \* what the latest handlePointerUp found and did
  strays,            \* pointer moves so far that aimed at no snap position
  pan,               \* useViewportTransform: pan, a point of numbers
  zoom,              \* useViewportTransform: zoom, a number
  isAnimating,       \* useViewportTransform: flag of the fit transition
  touchStateRef,     \* useViewportTransform: touchStateRef.current
  window,            \* window.innerWidth and window.innerHeight
  fitTimer,          \* piece list of the pending fitToView timeout, if any
  lastGesture,       \* what the latest viewport handler was given and found
  gestures,          \* viewport events so far
  probe,             \* a function explored on its own: the call and its result
  isPanning,         \* useViewportTransform: flag of a drag of the background
  panStartRef,       \* useViewportTransform: panStartRef.current
  slidingHook,       \* which useSlidingPuzzle is mounted: "none", "moves", "inversions"
  board,             \* useSlidingPuzzle: tile at every position 0..8
  moves,             \* useSlidingPuzzle: number of moves
  hasCompleted,      \* useSlidingPuzzle: flag set by the completion effect
  slidingTimer,      \* useSlidingPuzzle: the completion timeout is pending
  lastTile,          \* position given to the latest moveTile call, -1 before
  queued,            \* React: the states set since the latest render
  rendered,          \* React: the latest render and its effects that have not run yet
  listening,         \* the pieces array the registered window listeners closed over
  firedHeld,         \* dragRef.current.activeId when the batch timer fired last, 0 if none
  late,              \* pointer events so far that came before React had caught up
  urgent             \* React: a pointer-down or pointer-up has set a state that is not rendered yet

\* what a session is given and never changes
props == << pieceDefinitions, imageUrl >>

\* the drag of the background
panning == << isPanning, panStartRef >>

\* the state of useSlidingPuzzle
sliding == << slidingHook, board, moves, hasCompleted, slidingTimer, lastTile >>

\* renders and effects, where they are not taken together with the handler
react == << queued, rendered, listening, firedHeld, late, urgent >>

\* the viewport, and what only the exploration of one function uses
viewport == << pan, zoom, isAnimating, touchStateRef, window, lastGesture, gestures >>

vars == << pieceDefinitions, pieces, batchIndex, isGameComplete, timer, drag, mismatchLine,
           imageUrl, screen, completedImageUrl, completions, lastBatch, lastRelease, strays,
           pan, zoom, isAnimating, touchStateRef, window, fitTimer, lastGesture, gestures, probe,
           isPanning, panStartRef, slidingHook, board, moves, hasCompleted, slidingTimer,
           lastTile, queued, rendered, listening, firedHeld, late,
           urgent >>

\* pieceDefinitions.find(d => d.id === id)
DefOf(id) == pieceDefinitions[CHOOSE i \in 1..Len(pieceDefinitions) : pieceDefinitions[i].id = id]

Min(a, b) == IF a < b THEN a ELSE b
Max(a, b) == IF a > b THEN a ELSE b

\* ------------------------------------------- JavaScript number arithmetic
\* A finite IEEE 754 binary64 value is [s, m, e]: sign s in {-1, 0, 1} and,
\* when s # 0, the value s * m * 2^e with 2^52 <= m < 2^53.  m is a natural
\* number written as its digits to the base LIMB, lowest digit first, without
\* leading zero digits.  Every operation computes the exact result and rounds
\* it to the nearest value, ties to even.  The values of a session stay far
\* from the overflow and the subnormal range, which are left out.
LIMB == 32768
LIMB_BITS == 15
MANT_BITS == 53
\* extra quotient bits of a division before rounding
GUARD_BITS == 56

TwoTo == << 1, 2, 4, 8, 16, 32, 64, 128, 256, 512, 1024, 2048, 4096, 8192, 16384 >>
Pow2(k) == TwoTo[k + 1]

Rest(a) == IF a = << >> THEN << >> ELSE Tail(a)
Low(a) == IF a = << >> THEN 0 ELSE Head(a)

RECURSIVE NatNorm(_)
NatNorm(a) ==
  IF a = << >> THEN << >>
  ELSE IF a[Len(a)] = 0 THEN NatNorm(SubSeq(a, 1, Len(a) - 1))
  ELSE a

RECURSIVE NatFromInt(_)
NatFromInt(n) == IF n = 0 THEN << >> ELSE << n % LIMB >> \o NatFromInt(n \div LIMB)

\* a + b + c for a carry c; x is the sum of the lowest digits and the carry
RECURSIVE NatAddC(_, _, _)
NatAddDigit(a, b, x) == << x % LIMB >> \o NatAddC(Rest(a), Rest(b), x \div LIMB)
NatAddC(a, b, c) ==
  IF a = << >> /\ b = << >> THEN (IF c = 0 THEN << >> ELSE << c >>)
  ELSE NatAddDigit(a, b, Low(a) + Low(b) + c)
NatAdd(a, b) == NatAddC(a, b, 0)

\* a - b for a >= b, with a borrow c
RECURSIVE NatSubB(_, _, _)
NatSubDigit(a, b, x) ==
  << (x + LIMB) % LIMB >> \o NatSubB(Tail(a), Rest(b), IF x < 0 THEN 1 ELSE 0)
NatSubB(a, b, c) ==
  IF a = << >> THEN << >> ELSE NatSubDigit(a, b, Head(a) - Low(b) - c)
NatSub(a, b) == NatNorm(NatSubB(a, b, 0))

\* -1, 0, 1 as a is below, equal to, above b
RECURSIVE NatCmpFrom(_, _, _)
NatCmpFrom(a, b, i) ==
  IF i = 0 THEN 0
  ELSE IF a[i] < b[i] THEN -1
  ELSE IF a[i] > b[i] THEN 1
  ELSE NatCmpFrom(a, b, i - 1)
NatCmp(a, b) ==
  IF Len(a) < Len(b) THEN -1
  ELSE IF Len(a) > Len(b) THEN 1
  ELSE NatCmpFrom(a, b, Len(a))

\* a * k for a digit k, with a carry c
RECURSIVE NatMulDigitC(_, _, _)
NatMulDigitStep(a, k, x) == << x % LIMB >> \o NatMulDigitC(Tail(a), k, x \div LIMB)
NatMulDigitC(a, k, c) ==
  IF a = << >> THEN (IF c = 0 THEN << >> ELSE << c >>)
  ELSE NatMulDigitStep(a, k, Head(a) * k + c)
NatMulDigit(a, k) == IF k = 0 THEN << >> ELSE NatMulDigitC(a, k, 0)

Zeros(n) == [i \in 1..n |-> 0]
NatShiftDigits(a, n) == IF a = << >> THEN << >> ELSE Zeros(n) \o a

RECURSIVE NatMul(_, _)
NatMul(a, b) ==
  IF b = << >> THEN << >>
  ELSE NatAdd(NatMulDigit(a, Head(b)), NatShiftDigits(NatMul(a, Tail(b)), 1))

\* a * 2^k
NatShl(a, k) == NatShiftDigits(NatMulDigit(a, Pow2(k % LIMB_BITS)), k \div LIMB_BITS)

\* the digits of a from digit q + 1 on
NatDropDigits(a, q) == IF q >= Len(a) THEN << >> ELSE SubSeq(a, q + 1, Len(a))

\* floor(a / d) for a digit d, from digit i down with remainder r
RECURSIVE NatDivDigitFrom(_, _, _, _)
NatDivDigitStep(a, d, i, x) == NatDivDigitFrom(a, d, i - 1, x % d) \o << x \div d >>
NatDivDigitFrom(a, d, i, r) ==
  IF i = 0 THEN << >> ELSE NatDivDigitStep(a, d, i, r * LIMB + a[i])
NatDivDigit(a, d) == NatNorm(NatDivDigitFrom(a, d, Len(a), 0))

\* floor(a / 2^k)
NatShr(a, k) == NatDivDigit(NatDropDigits(a, k \div LIMB_BITS), Pow2(k % LIMB_BITS))

BitLenDigit(d) == CHOOSE n \in 1..LIMB_BITS : Pow2(n - 1) <= d /\ (n = LIMB_BITS \/ d < Pow2(n))
NatBitLen(a) == IF a = << >> THEN 0 ELSE LIMB_BITS * (Len(a) - 1) + BitLenDigit(a[Len(a)])
NatIsOdd(a) == a # << >> /\ Head(a) % 2 = 1

\* the digit d with d * b <= r < (d + 1) * b, for r < b * LIMB and a divisor
\* b whose highest digit is at least LIMB / 2: the quotient est of the two
\* highest digits of r by the highest digit of b is d, d + 1 or d + 2
QuotientCorrected(r, b, est) ==
  IF NatCmp(NatMulDigit(b, est), r) <= 0 THEN est
  ELSE IF NatCmp(NatMulDigit(b, est - 1), r) <= 0 THEN est - 1
  ELSE est - 2
QuotientEstimate(r, b, top) ==
  QuotientCorrected(r, b, IF top > LIMB - 1 THEN LIMB - 1 ELSE top)
QuotientDigit(r, b) ==
  IF Len(r) < Len(b) THEN 0
  ELSE QuotientEstimate(r, b, ((IF Len(r) > Len(b) THEN r[Len(b) + 1] ELSE 0) * LIMB
                               + r[Len(b)]) \div b[Len(b)])

\* long division: quotient and remainder of the digits i.. of a by b; q is
\* the quotient so far, r the remainder with the next digit, d its quotient
RECURSIVE NatDivFrom(_, _, _)
NatDivTake(b, q, r, d) == [q |-> << d >> \o q, r |-> NatSub(r, NatMulDigit(b, d))]
NatDivDigitOf(b, q, r) == NatDivTake(b, q, r, QuotientDigit(r, b))
NatDivStep(b, digit, p) == NatDivDigitOf(b, p.q, NatNorm(<< digit >> \o p.r))
NatDivFrom(a, b, i) ==
  IF i > Len(a) THEN [q |-> << >>, r |-> << >>]
  ELSE NatDivStep(b, a[i], NatDivFrom(a, b, i + 1))

\* floor(a / b) and whether a is a multiple of b, for b # 0; both numbers are
\* scaled so that the highest digit of the divisor is at least LIMB / 2
NatDivResult(d) == [q |-> NatNorm(d.q), exact |-> d.r = << >>]
NatDivScaled(a, b, sh) == NatDivResult(NatDivFrom(NatShl(a, sh), NatShl(b, sh), 1))
NatDiv(a, b) == NatDivScaled(a, b, LIMB_BITS * Len(b) - NatBitLen(b))

FZero == [s |-> 0, m |-> << >>, e |-> 0]

\* the value nearest to s * (n + f) * 2^e, where 0 <= f < 1 and f > 0 iff
\* sticky; with sticky, n has more than MANT_BITS + 1 bits.  A significand
\* of more than MANT_BITS bits is cut by sh bits to q, c compares what was cut
\* off with half a unit of q, and q1 is q or the next number.
NearestPacked(s, e, q1) ==
  IF NatBitLen(q1) > MANT_BITS THEN [s |-> s, m |-> NatShr(q1, 1), e |-> e + 1]
  ELSE [s |-> s, m |-> q1, e |-> e]
NearestUp(s, e, sticky, q, c) ==
  NearestPacked(s, e, IF c > 0 \/ (c = 0 /\ (sticky \/ NatIsOdd(q)))
                        THEN NatAdd(q, << 1 >>) ELSE q)
NearestCut(s, n, e, sticky, sh, q) ==
  NearestUp(s, e + sh, sticky, q, NatCmp(NatSub(n, NatShl(q, sh)), NatShl(<< 1 >>, sh - 1)))
NearestOfLength(s, n, e, sticky, len) ==
  IF len <= MANT_BITS
    THEN [s |-> s, m |-> NatShl(n, MANT_BITS - len), e |-> e - (MANT_BITS - len)]
    ELSE NearestCut(s, n, e, sticky, len - MANT_BITS, NatShr(n, len - MANT_BITS))
Nearest(s, n, e, sticky) ==
  IF n = << >> \/ s = 0 THEN FZero ELSE NearestOfLength(s, n, e, sticky, NatBitLen(n))

\* Nearest, with each operand worked out once
FRound(s, n, e, sticky) ==
  CHOOSE r \in { Nearest(v[1], v[2], v[3], v[4]) : v \in { << s, n, e, sticky >> } } : TRUE

\* the number with the value of the integer n
OfInteger(n) == FRound(IF n < 0 THEN -1 ELSE 1, NatFromInt(IF n < 0 THEN -n ELSE n), 0, FALSE)
FromInt(n) == CHOOSE r \in { OfInteger(v) : v \in { n } } : TRUE

FNeg(a) == [a EXCEPT !.s = -@]

\* a + b, rounded: x and y are the significands at the lower exponent emin,
\* c compares them
SignedSum(sa, sb, x, y, emin, c) ==
  FRound(IF sa = sb \/ c > 0 THEN sa ELSE IF c = 0 THEN 0 ELSE sb,
         IF sa = sb THEN NatAdd(x, y)
         ELSE IF c > 0 THEN NatSub(x, y)
         ELSE IF c = 0 THEN << >> ELSE NatSub(y, x),
         emin, FALSE)
AlignedSum(sa, sb, x, y, emin) == SignedSum(sa, sb, x, y, emin, NatCmp(x, y))
SumAt(a, b, emin) == AlignedSum(a.s, b.s, NatShl(a.m, a.e - emin), NatShl(b.m, b.e - emin), emin)
RoundedSum(a, b) ==
  IF a.s = 0 THEN b
  ELSE IF b.s = 0 THEN a
  ELSE IF a.e - b.e > MANT_BITS + 2 THEN a
  ELSE IF b.e - a.e > MANT_BITS + 2 THEN b
  ELSE SumAt(a, b, IF a.e < b.e THEN a.e ELSE b.e)

\* a * b, rounded
RoundedProduct(a, b) ==
  IF a.s = 0 \/ b.s = 0 THEN FZero
  ELSE FRound(a.s * b.s, NatMul(a.m, b.m), a.e + b.e, FALSE)

\* a / b for b # 0, rounded
QuotientRounded(a, b, d) == FRound(a.s * b.s, d.q, a.e - b.e - GUARD_BITS, ~d.exact)
RoundedQuotient(a, b) ==
  IF a.s = 0 THEN FZero
  ELSE QuotientRounded(a, b, NatDiv(NatShl(a.m, GUARD_BITS), b.m))

\* the number operations +, -, * and /: each operand is worked out once
FAdd(a, b) == CHOOSE r \in { RoundedSum(v[1], v[2]) : v \in { << a, b >> } } : TRUE
FSub(a, b) == FAdd(a, FNeg(b))
FMul(a, b) == CHOOSE r \in { RoundedProduct(v[1], v[2]) : v \in { << a, b >> } } : TRUE
FDiv(a, b) == CHOOSE r \in { RoundedQuotient(v[1], v[2]) : v \in { << a, b >> } } : TRUE

\* a < b
FLess(a, b) == FSub(a, b).s < 0
\* Math.min and Math.max
Smaller(a, b) == IF FLess(b, a) THEN b ELSE a
Larger(a, b) == IF FLess(a, b) THEN b ELSE a
FMin(a, b) == CHOOSE r \in { Smaller(v[1], v[2]) : v \in { << a, b >> } } : TRUE
FMax(a, b) == CHOOSE r \in { Larger(v[1], v[2]) : v \in { << a, b >> } } : TRUE
\* the number written n / d in decimal notation, such as 0.9 for 9 / 10
Dec(n, d) == FDiv(FromInt(n), FromInt(d))

\* Math.cos(k / 4) * 1000 and Math.sin(k / 4) * 1000 for k = 0..123, rounded
COS1000 ==
  << 1000,   969,   878,   732,   540,   315,    71,  -178,  -416,  -628,
       -801,  -924,  -990,  -994,  -936,  -821,  -654,  -446,  -211,    38,
        284,   512,   709,   861,   960,   999,   977,   893,   754,   568,
        347,   104,  -146,  -386,  -602,  -781,  -911,  -985,  -997,  -948,
       -839,  -678,  -476,  -243,     4,   252,   483,   685,   844,   950,
        998,   983,   907,   775,   595,   378,   137,  -113,  -355,  -575,
       -760,  -897,  -978,  -999,  -958,  -857,  -702,  -504,  -275,   -29,
        219,   454,   660,   826,   940,   995,   989,   921,   796,   621,
        408,   170,   -80,  -324,  -548,  -738,  -882,  -971, -1000,  -967,
       -873,  -726,  -533,  -307,   -62,   187,   424,   635,   806,   928,
        991,   993,   933,   815,   647,   438,   202,   -46,  -292,  -520,
       -715,  -866,  -963, -1000,  -975,  -889,  -748,  -561,  -338,   -95,
        154,   394,   609,   786 >>
SIN1000 ==
  << 0,   247,   479,   682,   841,   949,   997,   984,   909,   778,
        598,   382,   141,  -108,  -351,  -572,  -757,  -895,  -978,  -999,
       -959,  -859,  -706,  -508,  -279,   -33,   215,   450,   657,   823,
        938,   995,   989,   923,   798,   625,   412,   174,   -75,  -320,
       -544,  -735,  -880,  -970, -1000,  -968,  -875,  -729,  -537,  -311,
        -66,   183,   420,   632,   804,   926,   991,   994,   935,   818,
        650,   442,   206,   -42,  -288,  -516,  -712,  -863,  -961, -1000,
       -976,  -891,  -751,  -564,  -342,   -99,   150,   390,   606,   784,
        913,   986,   997,   946,   837,   675,   472,   239,    -9,  -256,
       -487,  -688,  -846,  -952,  -998,  -982,  -906,  -772,  -591,  -373,
       -132,   117,   359,   579,   763,   899,   979,   999,   956,   854,
        699,   501,   271,    24,  -224,  -458,  -664,  -828,  -941,  -995,
       -988,  -919,  -793,  -618 >>

\* ------------------------------------------------------------ pieceMath.ts
\* the bounding boxes of two definitions are apart in the solved grid: no cell
\* of one touches a cell of the other
BoxesApart(def1, def2) ==
  \/ def1.ox + def1.width < def2.ox
  \/ def2.ox + def2.width < def1.ox
  \/ def1.oy + def1.height < def2.oy
  \/ def2.oy + def2.height < def1.oy

\* variant: only pieces that can touch in the solved grid are neighbours
AreNeighborsAdjacentOnly(p1, p2) ==
  LET def1 == DefOf(p1.id)
      def2 == DefOf(p2.id)
      ex == (p2.x - p1.x) - (def2.ox - def1.ox) * BLOCK_SIZE
      ey == (p2.y - p1.y) - (def2.oy - def1.oy) * BLOCK_SIZE
  IN  ~BoxesApart(def1, def2) /\ ex * ex + ey * ey < SNAP_THRESHOLD * SNAP_THRESHOLD

\* Math.hypot(dx, dy) < SNAP_THRESHOLD on the deviation from the solved offset
AreNeighbors(p1, p2) ==
  LET def1 == DefOf(p1.id)
      def2 == DefOf(p2.id)
      gridDiffX == (def2.ox - def1.ox) * BLOCK_SIZE
      gridDiffY == (def2.oy - def1.oy) * BLOCK_SIZE
      currentDiffX == p2.x - p1.x
      currentDiffY == p2.y - p1.y
      ex == currentDiffX - gridDiffX
      ey == currentDiffY - gridDiffY
  IN  ex * ex + ey * ey < SNAP_THRESHOLD * SNAP_THRESHOLD

\* where piece p2Id belongs when p1 stays where it is
GetExpectedPosition(p1, p2Id) ==
  LET def1 == DefOf(p1.id)
      def2 == DefOf(p2Id)
  IN  [x |-> p1.x + (def2.ox - def1.ox) * BLOCK_SIZE,
       y |-> p1.y + (def2.oy - def1.oy) * BLOCK_SIZE]

\* --------------------------------------------------------- batchManager.ts
CalculateOccupiedRects(ps) ==
  [i \in 1..Len(ps) |->
     [x |-> ps[i].x, y |-> ps[i].y,
      w |-> DefOf(ps[i].id).width * BLOCK_SIZE,
      h |-> DefOf(ps[i].id).height * BLOCK_SIZE]]

\* the axis-aligned overlap test of the probing loop
RectsOverlap(a, b) ==
  /\ a.x < b.x + b.w
  /\ a.x + a.w > b.x
  /\ a.y < b.y + b.h
  /\ a.y + a.h > b.y

\* variant: the base radius is never used
StartRadiusNoBase(occupiedRects) ==
  Max(MIN_SPAWN_RADIUS, Len(occupiedRects) * SPAWN_RADIUS_INCREMENT)

\* starting radius of the probing loop
StartRadius(occupiedRects) ==
  IF Len(occupiedRects) > 0
    THEN Max(MIN_SPAWN_RADIUS, Len(occupiedRects) * SPAWN_RADIUS_INCREMENT)
    ELSE SPAWN_RADIUS_BASE

\* candidate point of one attempt; angles count quarter radians, and every
\* attempt turns by 0.5 rad
TestPoint(centerX, centerY, occupiedRects, angleOffset, attempt) ==
  LET r == StartRadius(occupiedRects) + attempt * ATTEMPT_RADIUS_STEP
      k == angleOffset + 2 * attempt
  IN  [x |-> centerX + (COS1000[k + 1] * r) \div 1000,
       y |-> centerY + (SIN1000[k + 1] * r) \div 1000]

\* the rectangle that is tested against the occupied ones
TestRect(pt, w, h) == [x |-> pt.x, y |-> pt.y, w |-> w + MARGIN, h |-> h + MARGIN]

HasOverlap(testRect, occupiedRects) ==
  \E i \in 1..Len(occupiedRects) : RectsOverlap(testRect, occupiedRects[i])

\* the probing loop from attempt on: the first attempt whose candidate
\* collides with nothing, MAX_PLACEMENT_ATTEMPTS when there is none
RECURSIVE FirstFreeAttempt(_, _, _, _, _, _, _)
FirstFreeAttempt(w, h, centerX, centerY, occupiedRects, angleOffset, attempt) ==
  IF attempt >= MAX_PLACEMENT_ATTEMPTS THEN MAX_PLACEMENT_ATTEMPTS
  ELSE IF ~HasOverlap(TestRect(TestPoint(centerX, centerY, occupiedRects, angleOffset, attempt),
                               w, h),
                      occupiedRects)
    THEN attempt
    ELSE FirstFreeAttempt(w, h, centerX, centerY, occupiedRects, angleOffset, attempt + 1)

\* TRUE when all attempts collide and the far-away point is returned
UsesFallback(w, h, centerX, centerY, occupiedRects, angleOffset) ==
  FirstFreeAttempt(w, h, centerX, centerY, occupiedRects, angleOffset, 0) = MAX_PLACEMENT_ATTEMPTS

\* variant: when every attempt collides, the point of the last attempt is kept
FindSpawnPositionLastProbe(w, h, centerX, centerY, occupiedRects, bIndex, angleOffset) ==
  LET a == FirstFreeAttempt(w, h, centerX, centerY, occupiedRects, angleOffset, 0)
  IN  TestPoint(centerX, centerY, occupiedRects, angleOffset, Min(a, MAX_PLACEMENT_ATTEMPTS - 1))

FindSpawnPosition(w, h, centerX, centerY, occupiedRects, bIndex, angleOffset) ==
  LET a == FirstFreeAttempt(w, h, centerX, centerY, occupiedRects, angleOffset, 0)
  IN  IF a < MAX_PLACEMENT_ATTEMPTS
        THEN TestPoint(centerX, centerY, occupiedRects, angleOffset, a)
        ELSE [x |-> centerX + FALLBACK_DISTANCE + bIndex * FALLBACK_STEP, y |-> centerY]

\* centre of the union bounding box, the origin when nothing is placed
CalculateCenter(occupiedRects) ==
  IF Len(occupiedRects) = 0
    THEN [x |-> 0, y |-> 0]
    ELSE
      LET I == 1..Len(occupiedRects)
          minX == CHOOSE v \in { occupiedRects[i].x : i \in I } :
                    \A i \in I : v <= occupiedRects[i].x
          maxX == CHOOSE v \in { occupiedRects[i].x + occupiedRects[i].w : i \in I } :
                    \A i \in I : v >= occupiedRects[i].x + occupiedRects[i].w
          minY == CHOOSE v \in { occupiedRects[i].y : i \in I } :
                    \A i \in I : v <= occupiedRects[i].y
          maxY == CHOOSE v \in { occupiedRects[i].y + occupiedRects[i].h : i \in I } :
                    \A i \in I : v >= occupiedRects[i].y + occupiedRects[i].h
      IN  [x |-> (minX + maxX) \div 2, y |-> (minY + maxY) \div 2]

\* variant: the slice starts at the first definition
BatchDefsFromStart(bIndex) ==
  SubSeq(pieceDefinitions, 1, Min(bIndex * BATCH_SIZE + BATCH_SIZE, Len(pieceDefinitions)))

\* pieceDefinitions.slice(startIdx, endIdx)
BatchDefs(bIndex) ==
  SubSeq(pieceDefinitions,
         Min(bIndex * BATCH_SIZE, Len(pieceDefinitions)) + 1,
         Min(bIndex * BATCH_SIZE + BATCH_SIZE, Len(pieceDefinitions)))

\* Math.PI * 2 * (i / n) + Math.random() in quarter radians, for the values
\* of Math.random() that make it a whole number of quarter radians: the next
\* multiple of 0.25 at or above 2 * PI * i / n, plus rnd quarters (rnd in 0..3)
AngleOffset(i, n, rnd) == ((25133 * i + 1000 * n - 1) \div (1000 * n)) + rnd

\* variant: the rectangle of a placed piece is not added to occupiedRects
RECURSIVE PlaceFromNoFeedback(_, _, _, _, _)
PlaceFromNoFeedback(i, batchDefs, center, occupiedRects, rnd) ==
  IF i > Len(batchDefs) THEN << >>
  ELSE
    LET def == batchDefs[i]
        w == def.width * BLOCK_SIZE
        h == def.height * BLOCK_SIZE
        angleOffset == AngleOffset(i - 1, Len(batchDefs), rnd[i])
        position == FindSpawnPosition(w, h, center.x, center.y, occupiedRects, i - 1, angleOffset)
        piece == [id |-> def.id, x |-> position.x, y |-> position.y,
                  isLocked |-> FALSE, zIndex |-> Z_SPAWN_BASE + def.id, groupId |-> def.id,
                  fallback |-> UsesFallback(w, h, center.x, center.y, occupiedRects, angleOffset)]
    IN  << piece >> \o PlaceFromNoFeedback(i + 1, batchDefs, center, occupiedRects, rnd)

\* the forEach of generateBatchPieces: places definitions i..n of the batch,
\* occupiedRects grows by each placed rectangle
RECURSIVE PlaceFrom(_, _, _, _, _)
PlaceFrom(i, batchDefs, center, occupiedRects, rnd) ==
  IF i > Len(batchDefs) THEN << >>
  ELSE
    LET def == batchDefs[i]
        w == def.width * BLOCK_SIZE
        h == def.height * BLOCK_SIZE
        angleOffset == AngleOffset(i - 1, Len(batchDefs), rnd[i])
        position == FindSpawnPosition(w, h, center.x, center.y, occupiedRects, i - 1, angleOffset)
        piece == [id |-> def.id, x |-> position.x, y |-> position.y,
                  isLocked |-> FALSE, zIndex |-> Z_SPAWN_BASE + def.id, groupId |-> def.id,
                  fallback |-> UsesFallback(w, h, center.x, center.y, occupiedRects, angleOffset)]
    IN  << piece >> \o
        PlaceFrom(i + 1, batchDefs, center,
                  Append(occupiedRects, [x |-> position.x, y |-> position.y, w |-> w, h |-> h]), rnd)

\* the new pieces of batch bIndex; each carries the note whether it was
\* placed by the fallback
GenerateBatchPieces(bIndex, currentPieces, rnd) ==
  LET batchDefs == BatchDefs(bIndex)
      occupiedRects == CalculateOccupiedRects(currentPieces)
  IN  IF Len(batchDefs) = 0 THEN << >>
      ELSE PlaceFrom(1, batchDefs, CalculateCenter(occupiedRects), occupiedRects, rnd)

\* the PieceState of a generated piece; targetPos is { x: 0, y: 0 } for every
\* piece and is never read, so it is left out
AsPieceState(g) ==
  [id |-> g.id, x |-> g.x, y |-> g.y, isLocked |-> g.isLocked, zIndex |-> g.zIndex, groupId |-> g.groupId]

GroupIds(ps) == { ps[i].groupId : i \in 1..Len(ps) }

\* variant: a batch counts as finished while two groups are left
CheckBatchCompletionLoose(ps, totalPieces) ==
  IF Len(ps) = 0
    THEN [isComplete |-> FALSE, isGameComplete |-> FALSE]
    ELSE [isComplete |-> Cardinality(GroupIds(ps)) <= 2 /\ Len(ps) < totalPieces,
          isGameComplete |-> Cardinality(GroupIds(ps)) = 1 /\ Len(ps) = totalPieces]

CheckBatchCompletion(ps, totalPieces) ==
  IF Len(ps) = 0
    THEN [isComplete |-> FALSE, isGameComplete |-> FALSE]
    ELSE [isComplete |-> Cardinality(GroupIds(ps)) = 1 /\ Len(ps) < totalPieces,
          isGameComplete |-> Cardinality(GroupIds(ps)) = 1 /\ Len(ps) = totalPieces]

\* image references a session can get from getImageUrl
ImageUrls == { "img-a", "img-b" }
\* values of Math.random(), in quarter radians above the base angle: all of
\* them, and the one a session with pointer events is explored with
AllRandSteps == { 0, 1, 2, 3 }
SessionRandSteps == { 0 }
\* where inside a piece's bounding box the pointer goes down
ClickOffsets == { << 10, 10 >> }
\* where a dragged piece is put relative to its solved place next to another
\* piece: inside the snap distance, and at exactly the snap distance
NearJitters == { << 30, 30 >> }
FarJitters == { << 30, 40 >> }
\* pointer displacements since pointer-down of a drag of the only group
Nudges == { << 150, 0 >> }

NoTimer == [kind |-> "none", left |-> 0]
NoDrag == [activeId |-> 0, startPos |-> [x |-> 0, y |-> 0],
           mouseStart |-> [x |-> 0, y |-> 0], groupOffsets |-> << >>]
\* the note of a release: kind is "none" before the first release, "merged"
\* when the scan found a pair and snapped, "kept" when it found none; matched
\* holds the groupIds of all pieces that passed the test with the dragged group
NoRelease == [kind |-> "none", sId |-> 0, tId |-> 0, sourceGroupId |-> 0, targetGroupId |-> 0,
              adjustX |-> 0, adjustY |-> 0, matched |-> { }]

\* no two-finger gesture: the initial value of touchStateRef; null is << >>
NoTouch == [lastDistance |-> << >>, lastCenter |-> << >>, isPanning |-> FALSE, panStart |-> << >>]
\* no fitToView timeout is pending
NoFit == [pending |-> FALSE, pieces |-> << >>]
\* the note of a viewport handler, before the first one ran
NoGesture == [kind |-> "none", anchor |-> << >>]
\* the note of the call of a function that is explored on its own, before
\* the call
NoProbe == [called |-> FALSE, fn |-> "none"]
\* window sizes: a desktop browser window and a phone held upright
Desktop == [innerWidth |-> 1000, innerHeight |-> 800]
Phone == [innerWidth |-> 390, innerHeight |-> 844]

Indices(ps) == 1..Len(ps)
PieceById(ps, id) == ps[CHOOSE i \in Indices(ps) : ps[i].id = id]
HasPiece(ps, id) == \E i \in Indices(ps) : ps[i].id = id

\* ------------------------------------------------------- useGamePieces.ts
\* variant: the game counts as complete as soon as one group is left, whatever
\* the number of pieces spawned so far
CompletionEffectNoCount(ps) ==
  IF Len(ps) = 0 THEN NoTimer
  ELSE IF Cardinality(GroupIds(ps)) = 1 THEN [kind |-> "complete", left |-> COMPLETE_DELAY_MS]
  ELSE NoTimer

\* variant: the effect returns before it sets the batch timer
CompletionEffectNoBatch(ps) ==
  IF Len(ps) = 0 THEN NoTimer
  ELSE LET c == CheckBatchCompletion(ps, Len(pieceDefinitions))
       IN  IF c.isComplete THEN NoTimer
           ELSE IF c.isGameComplete THEN [kind |-> "complete", left |-> COMPLETE_DELAY_MS]
           ELSE NoTimer

\* the completion effect, which runs after every render with a new pieces
\* array: the previous timer is cleared and at most one new timer is set
CompletionEffect(ps) ==
  IF Len(ps) = 0 THEN NoTimer
  ELSE LET c == CheckBatchCompletion(ps, Len(pieceDefinitions))
       IN  IF c.isComplete THEN [kind |-> "batch", left |-> BATCH_DELAY_MS]
           ELSE IF c.isGameComplete THEN [kind |-> "complete", left |-> COMPLETE_DELAY_MS]
           ELSE NoTimer

\* setIsGameComplete(true) of the same effect
CompletionFlag(ps, flag) ==
  flag \/ (Len(ps) > 0 /\ ~CheckBatchCompletion(ps, Len(pieceDefinitions)).isComplete
                       /\ CheckBatchCompletion(ps, Len(pieceDefinitions)).isGameComplete)

\* variant: the effect leaves a pending timer of the same kind running
SetPiecesKeepsTimer(next) ==
  /\ pieces' = next
  /\ timer' = IF timer.kind # "none" /\ CompletionEffect(next).kind = timer.kind
                THEN timer
                ELSE CompletionEffect(next)
  /\ isGameComplete' = CompletionFlag(next, isGameComplete)

\* setPieces(next) followed by the render and its effects
SetPieces(next) ==
  /\ pieces' = next
  /\ timer' = CompletionEffect(next)
  /\ isGameComplete' = CompletionFlag(next, isGameComplete)

\* a mounted Game before its first effects ran
Mounted(defCount, urls, windows) ==
  /\ pieceDefinitions = SubSeq(PIECE_DEFINITIONS, 1, defCount)
  /\ imageUrl \in urls
  /\ window \in windows
  /\ pan = [x |-> FZero, y |-> FZero]
  /\ zoom = FromInt(1)
  /\ isAnimating = FALSE
  /\ touchStateRef = NoTouch
  /\ fitTimer = NoFit
  /\ lastGesture = NoGesture
  /\ gestures = 0
  /\ probe = NoProbe
  /\ isPanning = FALSE
  /\ panStartRef = [x |-> FZero, y |-> FZero]
  /\ slidingHook = "none"
  /\ board = << >>
  /\ moves = 0
  /\ hasCompleted = FALSE
  /\ slidingTimer = FALSE
  /\ lastTile = -1
  /\ queued = { }
  /\ rendered = [pieces |-> << >>, batchIndex |-> 0, effects |-> { }]
  /\ listening = << >>
  /\ firedHeld = 0
  /\ late = 0
  /\ urgent = FALSE
  /\ pieces = << >>
  /\ batchIndex = 0
  /\ isGameComplete = FALSE
  /\ timer = NoTimer
  /\ drag = NoDrag
  /\ mismatchLine = << >>
  /\ screen = "game"
  /\ completedImageUrl = ""
  /\ completions = 0
  /\ lastBatch = << >>
  /\ lastRelease = NoRelease
  /\ strays = 0

\* a short session: one batch holds all its pieces
Init == Mounted(SmallDefs, { "img-a" }, { Desktop })

\* a session of more than one batch
InitBatch == Mounted(NumDefs, { "img-a" }, { Desktop })

\* the initial-spawn effect
InitialSpawn(R) ==
  /\ screen = "game"
  /\ Len(pieces) = 0 /\ batchIndex = 0
  /\ Len(BatchDefs(0)) > 0
  /\ \E rnd \in [1..Len(BatchDefs(0)) -> R] :
       LET initialPieces == GenerateBatchPieces(0, << >>, rnd)
       IN  /\ SetPieces([i \in 1..Len(initialPieces) |-> AsPieceState(initialPieces[i])])
           /\ lastBatch' = initialPieces
           /\ fitTimer' = [pending |-> TRUE,
                           pieces |-> [i \in 1..Len(initialPieces) |-> AsPieceState(initialPieces[i])]]
  /\ UNCHANGED << batchIndex, drag, mismatchLine, props, panning, sliding, react, screen,
                  completedImageUrl, completions, lastRelease, strays, viewport, probe >>

\* spawnNextBatch for the batch index of the current render.  The timeout of
\* the spawn before has run by then: 50 ms against the 500 ms of a batch.
SpawnNextBatch(index, rnd) ==
  LET newPieces == GenerateBatchPieces(index, pieces, rnd)
  IN  /\ lastBatch' = newPieces
      /\ IF Len(newPieces) > 0
           THEN /\ SetPieces(pieces \o [i \in 1..Len(newPieces) |-> AsPieceState(newPieces[i])])
                /\ fitTimer' = [pending |-> TRUE,
                                pieces |-> pieces \o [i \in 1..Len(newPieces) |->
                                                        AsPieceState(newPieces[i])]]
           ELSE /\ pieces' = pieces
                /\ timer' = NoTimer
                /\ isGameComplete' = isGameComplete
                /\ fitTimer' = fitTimer

\* time passes while a timer is pending
Tick ==
  /\ screen = "game"
  /\ timer.kind # "none" /\ timer.left > 0
  /\ timer' = [timer EXCEPT !.left = Max(0, timer.left - TickMs)]
  /\ UNCHANGED << pieces, batchIndex, isGameComplete, drag, mismatchLine, props, panning, sliding, react,
                  screen, completedImageUrl, completions, lastBatch, lastRelease, strays,
                  viewport, fitTimer, probe >>

\* the batch timer fires: setBatchIndex(prev => prev + 1), and the effect on
\* batchIndex spawns the next batch
BatchTimerFires(R) ==
  /\ screen = "game"
  /\ timer.kind = "batch" /\ timer.left = 0
  /\ batchIndex' = batchIndex + 1
  /\ \E rnd \in [1..Len(BatchDefs(batchIndex + 1)) -> R] :
       SpawnNextBatch(batchIndex + 1, rnd)
  /\ UNCHANGED << drag, mismatchLine, props, panning, sliding, react, screen, completedImageUrl,
                  completions, lastRelease, strays, viewport, probe >>

\* variant: the callback remembers the image and leaves the game mounted
HandleGameCompleteStay(url) == [completedImageUrl |-> url, screen |-> "game"]

\* App.handleGameComplete: remember the image and leave the game screen
HandleGameComplete(url) == [completedImageUrl |-> url, screen |-> "end"]

\* the completion timer fires: onComplete(imageUrl)
CompleteTimerFires ==
  /\ screen = "game"
  /\ timer.kind = "complete" /\ timer.left = 0
  /\ completions' = completions + 1
  /\ completedImageUrl' = HandleGameComplete(imageUrl).completedImageUrl
  /\ screen' = HandleGameComplete(imageUrl).screen
  /\ timer' = NoTimer
  /\ UNCHANGED << pieces, batchIndex, isGameComplete, drag, mismatchLine, props, panning, sliding, react,
                  lastBatch, lastRelease, strays, viewport, fitTimer, probe >>

\* -------------------------------------------------- usePieceInteraction.ts
\* the bounding-box test of the hit test
Contains(p, wx, wy) ==
  /\ wx >= p.x
  /\ wx <= p.x + DefOf(p.id).width * BLOCK_SIZE
  /\ wy >= p.y
  /\ wy <= p.y + DefOf(p.id).height * BLOCK_SIZE

\* [...pieces].reverse().find(...): index of the last piece of the list that
\* contains the point, 0 when there is none
ClickedIndex(ps, wx, wy) ==
  LET hits == { i \in Indices(ps) : Contains(ps[i], wx, wy) }
  IN  IF hits = {} THEN 0 ELSE CHOOSE i \in hits : \A j \in hits : j <= i

\* z-order after the grabbed group is brought to the front
BringToFront(ps, groupId) ==
  [i \in Indices(ps) |->
     [ps[i] EXCEPT !.zIndex = IF ps[i].groupId = groupId THEN Z_DRAGGED
                              ELSE IF ps[i].zIndex > Z_DEMOTED THEN Z_DEMOTED
                              ELSE ps[i].zIndex]]

\* variant: no offsets are stored, every member is put on the grabbed piece
GroupOffsetsZero(ps, clicked) ==
  [id \in { ps[i].id : i \in { j \in Indices(ps) : ps[j].groupId = clicked.groupId } } |->
     [dx |-> 0, dy |-> 0]]

\* offsets of the group members from the grabbed piece
GroupOffsets(ps, clicked) ==
  [id \in { ps[i].id : i \in { j \in Indices(ps) : ps[j].groupId = clicked.groupId } } |->
     [dx |-> PieceById(ps, id).x - clicked.x, dy |-> PieceById(ps, id).y - clicked.y]]

\* handlePointerDown with the primary button on a piece
PointerDown(wx, wy) ==
  /\ screen = "game"
  /\ drag.activeId = 0
  /\ ClickedIndex(pieces, wx, wy) # 0
  /\ LET clickedPiece == pieces[ClickedIndex(pieces, wx, wy)]
     IN  /\ SetPieces(BringToFront(pieces, clickedPiece.groupId))
         /\ drag' = [activeId |-> clickedPiece.id,
                     startPos |-> [x |-> clickedPiece.x, y |-> clickedPiece.y],
                     mouseStart |-> [x |-> wx, y |-> wy],
                     groupOffsets |-> GroupOffsets(pieces, clickedPiece)]
  /\ UNCHANGED << batchIndex, mismatchLine, props, panning, sliding, react, screen, completedImageUrl,
                  completions, lastBatch, lastRelease, strays, viewport, fitTimer, probe >>

\* variant: only the held piece follows the pointer
MoveGroupActiveOnly(ps, activeId, groupOffsets, newMainPos) ==
  [i \in Indices(ps) |->
     IF ps[i].id = activeId
       THEN [ps[i] EXCEPT !.x = newMainPos.x, !.y = newMainPos.y]
       ELSE ps[i]]

\* positions after a drag update: every member of the active piece's group is
\* put at the new main position plus its stored offset
MoveGroup(ps, activeId, groupOffsets, newMainPos) ==
  [i \in Indices(ps) |->
     IF HasPiece(ps, activeId) /\ ps[i].groupId = PieceById(ps, activeId).groupId
       THEN LET offset == IF ps[i].id \in DOMAIN groupOffsets
                            THEN groupOffsets[ps[i].id]
                            ELSE [dx |-> 0, dy |-> 0]
            IN  [ps[i] EXCEPT !.x = newMainPos.x + offset.dx,
                              !.y = newMainPos.y + offset.dy]
       ELSE ps[i]]

CenterOf(p) ==
  [x |-> p.x + (DefOf(p.id).width * BLOCK_SIZE) \div 2,
   y |-> p.y + (DefOf(p.id).height * BLOCK_SIZE) \div 2]

\* the radius test with the radius itself counted as close
WithinMismatchRadiusInclusive(a, b) ==
  (a.x - b.x) * (a.x - b.x) + (a.y - b.y) * (a.y - b.y) <= MISMATCH_RADIUS * MISMATCH_RADIUS

\* Math.hypot(a.x - b.x, a.y - b.y) < MISMATCH_RADIUS
WithinMismatchRadius(a, b) ==
  (a.x - b.x) * (a.x - b.x) + (a.y - b.y) * (a.y - b.y) < MISMATCH_RADIUS * MISMATCH_RADIUS

\* the first close piece outside the drag that is not a neighbour
MismatchOf(ps, updatedPieces, activeId, groupOffsets) ==
  IF ~HasPiece(updatedPieces, activeId) THEN << >>
  ELSE
    LET activePiece == PieceById(updatedPieces, activeId)
        wrong == { i \in Indices(ps) :
                     /\ ps[i].id \notin DOMAIN groupOffsets
                     /\ ps[i].id # activeId
                     /\ WithinMismatchRadius(activePiece, ps[i])
                     /\ ~AreNeighbors(activePiece, ps[i]) }
    IN  IF wrong = {} THEN << >>
        ELSE << CenterOf(activePiece),
                CenterOf(ps[CHOOSE i \in wrong : \A j \in wrong : i <= j]) >>

\* handlePointerMove while a piece is held; (wx, wy) is the pointer in world
\* coordinates
PointerMove(wx, wy) ==
  /\ screen = "game"
  /\ drag.activeId # 0
  /\ LET newMainPos == [x |-> drag.startPos.x + (wx - drag.mouseStart.x),
                        y |-> drag.startPos.y + (wy - drag.mouseStart.y)]
         updatedPieces == MoveGroup(pieces, drag.activeId, drag.groupOffsets, newMainPos)
     IN  /\ SetPieces(updatedPieces)
         /\ mismatchLine' = MismatchOf(pieces, updatedPieces, drag.activeId, drag.groupOffsets)
  /\ UNCHANGED << batchIndex, drag, props, panning, sliding, react, screen, completedImageUrl,
                  completions, lastBatch, lastRelease, viewport, fitTimer, probe >>

\* the pieces a release scans: the dragged group, and everybody else
SourceGroupIndices(ps, sourceGroupId) == { i \in Indices(ps) : ps[i].groupId = sourceGroupId }
\* variant: the scan does not leave out the dragged group
TargetGroupIndicesAll(ps, sourceGroupId) == Indices(ps)
TargetGroupIndices(ps, sourceGroupId) == { i \in Indices(ps) : ps[i].groupId # sourceGroupId }

\* variant: only pairs whose pieces touch in the solved grid are matched
MatchingPairsTouching(ps, sourceGroupId) ==
  { pr \in SourceGroupIndices(ps, sourceGroupId) \X TargetGroupIndices(ps, sourceGroupId) :
      /\ ~BoxesApart(DefOf(ps[pr[1]].id), DefOf(ps[pr[2]].id))
      /\ AreNeighbors(ps[pr[1]], ps[pr[2]]) }

\* pairs << source index, target index >> that pass the neighbour test
MatchingPairs(ps, sourceGroupId) ==
  { pr \in SourceGroupIndices(ps, sourceGroupId) \X TargetGroupIndices(ps, sourceGroupId) :
      AreNeighbors(ps[pr[1]], ps[pr[2]]) }

\* variant: the loops do not stop at a match, the last pair is used
FirstMatchLast(ps, sourceGroupId) ==
  LET m == MatchingPairs(ps, sourceGroupId)
  IN  CHOOSE pr \in m : \A q \in m : q[1] < pr[1] \/ (q[1] = pr[1] /\ q[2] <= pr[2])

\* the pair the nested loops reach first: source order outside, target inside
FirstMatch(ps, sourceGroupId) ==
  LET m == MatchingPairs(ps, sourceGroupId)
  IN  CHOOSE pr \in m : \A q \in m : pr[1] < q[1] \/ (pr[1] = q[1] /\ pr[2] <= q[2])

\* variant: the group gets the target's id and is left where it was dropped
SnapGroupLabelOnly(ps, sourceGroupId, sPiece, tPiece) ==
  [i \in Indices(ps) |->
     IF ps[i].groupId = sourceGroupId
       THEN [ps[i] EXCEPT !.groupId = tPiece.groupId, !.zIndex = Z_RESET]
       ELSE ps[i]]

\* variant: only the matching piece is snapped and relabelled
SnapGroupOnePiece(ps, sourceGroupId, sPiece, tPiece) ==
  LET idealPos == GetExpectedPosition(tPiece, sPiece.id)
  IN  [i \in Indices(ps) |->
         IF ps[i].id = sPiece.id
           THEN [ps[i] EXCEPT !.x = idealPos.x,
                              !.y = idealPos.y,
                              !.groupId = tPiece.groupId,
                              !.zIndex = Z_RESET]
           ELSE ps[i]]

\* variant: the source group is snapped and the target group is relabelled
SnapGroupRelabelTarget(ps, sourceGroupId, sPiece, tPiece) ==
  LET idealPos == GetExpectedPosition(tPiece, sPiece.id)
      adjustX == idealPos.x - sPiece.x
      adjustY == idealPos.y - sPiece.y
  IN  [i \in Indices(ps) |->
         IF ps[i].groupId = sourceGroupId
           THEN [ps[i] EXCEPT !.x = ps[i].x + adjustX,
                              !.y = ps[i].y + adjustY,
                              !.zIndex = Z_RESET]
           ELSE IF ps[i].groupId = tPiece.groupId
             THEN [ps[i] EXCEPT !.groupId = sourceGroupId]
             ELSE ps[i]]

\* variant: the welded group is labelled with the id of the next piece to spawn
SnapGroupNextId(ps, sourceGroupId, sPiece, tPiece) ==
  LET idealPos == GetExpectedPosition(tPiece, sPiece.id)
      adjustX == idealPos.x - sPiece.x
      adjustY == idealPos.y - sPiece.y
  IN  [i \in Indices(ps) |->
         IF ps[i].groupId = sourceGroupId
           THEN [ps[i] EXCEPT !.x = ps[i].x + adjustX,
                              !.y = ps[i].y + adjustY,
                              !.groupId = Len(ps) + 1,
                              !.zIndex = Z_RESET]
           ELSE IF ps[i].groupId = tPiece.groupId
             THEN [ps[i] EXCEPT !.groupId = Len(ps) + 1]
             ELSE ps[i]]

\* variant: every group that holds a neighbour of the source group is merged
SnapGroupSweep(ps, sourceGroupId, sPiece, tPiece) ==
  LET idealPos == GetExpectedPosition(tPiece, sPiece.id)
      adjustX == idealPos.x - sPiece.x
      adjustY == idealPos.y - sPiece.y
      near == { ps[pr[2]].groupId : pr \in MatchingPairs(ps, sourceGroupId) }
  IN  [i \in Indices(ps) |->
         IF ps[i].groupId = sourceGroupId
           THEN [ps[i] EXCEPT !.x = ps[i].x + adjustX,
                              !.y = ps[i].y + adjustY,
                              !.groupId = tPiece.groupId,
                              !.zIndex = Z_RESET]
           ELSE IF ps[i].groupId \in near
             THEN [ps[i] EXCEPT !.groupId = tPiece.groupId]
             ELSE ps[i]]

\* snap the whole source group by one translation and give it the target's id
SnapGroup(ps, sourceGroupId, sPiece, tPiece) ==
  LET idealPos == GetExpectedPosition(tPiece, sPiece.id)
      adjustX == idealPos.x - sPiece.x
      adjustY == idealPos.y - sPiece.y
  IN  [i \in Indices(ps) |->
         IF ps[i].groupId = sourceGroupId
           THEN [ps[i] EXCEPT !.x = ps[i].x + adjustX,
                              !.y = ps[i].y + adjustY,
                              !.groupId = tPiece.groupId,
                              !.zIndex = Z_RESET]
           ELSE ps[i]]

\* variant: a release without a match leaves the z-order as it is
ResetZKeepsFront(ps, sourceGroupId) == ps

\* variant: the release resets the zIndex of every piece
ResetZEverywhere(ps, sourceGroupId) ==
  [i \in Indices(ps) |-> [ps[i] EXCEPT !.zIndex = Z_RESET]]

\* the release without a match: only the z-order of the group is reset
ResetZ(ps, sourceGroupId) ==
  [i \in Indices(ps) |->
     IF ps[i].groupId = sourceGroupId THEN [ps[i] EXCEPT !.zIndex = Z_RESET] ELSE ps[i]]

\* variant: the release ends the drag and leaves the mismatch signal as it is
PointerUpKeepsSignal ==
  /\ screen = "game"
  /\ drag.activeId # 0
  /\ isPanning' = FALSE
  /\ mismatchLine' = mismatchLine
  /\ SetPieces(ResetZ(pieces, PieceById(pieces, drag.activeId).groupId))
  /\ lastRelease' = [NoRelease EXCEPT !.kind = "kept",
                                      !.sourceGroupId = PieceById(pieces, drag.activeId).groupId]
  /\ drag' = NoDrag
  /\ UNCHANGED << batchIndex, props, panStartRef, sliding, react, screen, completedImageUrl,
                  completions, lastBatch, strays, viewport, fitTimer, probe >>

\* variant: the release leaves the drag as it is
PointerUpKeepsDrag ==
  /\ screen = "game"
  /\ drag.activeId # 0
  /\ isPanning' = FALSE
  /\ mismatchLine' = << >>
  /\ SetPieces(ResetZ(pieces, PieceById(pieces, drag.activeId).groupId))
  /\ lastRelease' = [NoRelease EXCEPT !.kind = "kept",
                                      !.sourceGroupId = PieceById(pieces, drag.activeId).groupId]
  /\ UNCHANGED << batchIndex, drag, props, panStartRef, sliding, react, screen, completedImageUrl,
                  completions, lastBatch, strays, viewport, fitTimer, probe >>

\* handlePointerUp while a piece is held.  startPos and mouseStart of the
\* finished drag are never read again (handlePointerDown overwrites them), so
\* they are cleared together with activeId and groupOffsets.
PointerUp ==
  /\ screen = "game"
  /\ drag.activeId # 0
  /\ isPanning' = FALSE
  /\ mismatchLine' = << >>
  /\ IF ~HasPiece(pieces, drag.activeId)
       THEN /\ UNCHANGED << pieces, timer, isGameComplete, lastRelease >>
            /\ drag' = drag
       ELSE
         LET sourceGroupId == PieceById(pieces, drag.activeId).groupId
         IN  /\ IF MatchingPairs(pieces, sourceGroupId) # {}
                  THEN LET pr == FirstMatch(pieces, sourceGroupId)
                       IN  /\ SetPieces(SnapGroup(pieces, sourceGroupId, pieces[pr[1]], pieces[pr[2]]))
                           /\ lastRelease' =
                                [kind |-> "merged",
                                 sId |-> pieces[pr[1]].id,
                                 tId |-> pieces[pr[2]].id,
                                 sourceGroupId |-> sourceGroupId,
                                 targetGroupId |-> pieces[pr[2]].groupId,
                                 adjustX |-> GetExpectedPosition(pieces[pr[2]], pieces[pr[1]].id).x
                                               - pieces[pr[1]].x,
                                 adjustY |-> GetExpectedPosition(pieces[pr[2]], pieces[pr[1]].id).y
                                               - pieces[pr[1]].y,
                                 matched |-> { pieces[q[2]].groupId :
                                                 q \in MatchingPairs(pieces, sourceGroupId) }]
                  ELSE /\ SetPieces(ResetZ(pieces, sourceGroupId))
                       /\ lastRelease' = [NoRelease EXCEPT !.kind = "kept",
                                                           !.sourceGroupId = sourceGroupId]
             /\ drag' = NoDrag
  /\ UNCHANGED << batchIndex, props, panStartRef, sliding, react, screen, completedImageUrl,
                  completions, lastBatch, strays, viewport, fitTimer, probe >>

\* --------------------------------------- pieceMath.ts: coordinate transforms
FAbs(a) == [a EXCEPT !.s = IF a.s = 0 THEN 0 ELSE 1]
\* a <= b
FAtMost(a, b) == ~FLess(b, a)
\* the number is a whole number
FIsInteger(a) ==
  \/ a.s = 0
  \/ a.e >= 0
  \/ a.e > -MANT_BITS /\ NatShl(NatShr(a.m, -a.e), -a.e) = a.m
\* the number is a power of two
FIsPowerOfTwo(a) == a.s = 1 /\ a.m = NatShl(<< 1 >>, MANT_BITS - 1)

WorldToScreen(worldPos, p, z) ==
  [x |-> FAdd(FMul(worldPos.x, z), p.x),
   y |-> FAdd(FMul(worldPos.y, z), p.y)]

\* variant: the pan is not taken off
ScreenToWorldNoPan(screenPos, p, z) ==
  [x |-> FDiv(screenPos.x, z),
   y |-> FDiv(screenPos.y, z)]

ScreenToWorld(screenPos, p, z) ==
  [x |-> FDiv(FSub(screenPos.x, p.x), z),
   y |-> FDiv(FSub(screenPos.y, p.y), z)]

\* ------------------------------------------------ useViewportTransform.ts
MIN_ZOOM == Dec(1, 5)
MAX_ZOOM == FromInt(3)
\* upper limit of the zoom that fitToView chooses
FIT_MAX_ZOOM == FromInt(2)
\* factors of one wheel event: deltaY > 0 and otherwise
WHEEL_OUT == Dec(9, 10)
WHEEL_IN == Dec(11, 10)

\* variant: only the lower limit is kept
ClampZoomLowOnly(z) == FMax(MIN_ZOOM, z)

\* Math.max(MIN_ZOOM, Math.min(MAX_ZOOM, z))
ClampZoom(z) == FMax(MIN_ZOOM, FMin(MAX_ZOOM, z))

\* width and height of a piece as fitToView takes them: one block when the
\* piece has no definition
FitWidth(p) ==
  IF \E i \in 1..Len(pieceDefinitions) : pieceDefinitions[i].id = p.id
    THEN DefOf(p.id).width * BLOCK_SIZE ELSE BLOCK_SIZE
FitHeight(p) ==
  IF \E i \in 1..Len(pieceDefinitions) : pieceDefinitions[i].id = p.id
    THEN DefOf(p.id).height * BLOCK_SIZE ELSE BLOCK_SIZE

\* the forEach of fitToView from piece i on: bounds of the pieces seen so far
RECURSIVE FitBounds(_, _, _)
FitBounds(currentPieces, i, b) ==
  IF i > Len(currentPieces) THEN b
  ELSE LET q == currentPieces[i]
       IN  FitBounds(currentPieces, i + 1,
                     [minX |-> Min(b.minX, q.x), minY |-> Min(b.minY, q.y),
                      maxX |-> Max(b.maxX, q.x + FitWidth(q)),
                      maxY |-> Max(b.maxY, q.y + FitHeight(q))])

\* variant: the zoom is the larger of the two scales
FitToViewLargerScale(currentPieces, win) ==
  LET first == currentPieces[1]
      start == [minX |-> first.x, minY |-> first.y,
                maxX |-> first.x + FitWidth(first), maxY |-> first.y + FitHeight(first)]
      Fitted(b) ==
        LET contentCenterX == FAdd(FromInt(b.minX), FDiv(FromInt(b.maxX - b.minX), FromInt(2)))
            contentCenterY == FAdd(FromInt(b.minY), FDiv(FromInt(b.maxY - b.minY), FromInt(2)))
            scaleX == FDiv(FromInt(win.innerWidth), FromInt(b.maxX - b.minX + PADDING * 2))
            scaleY == FDiv(FromInt(win.innerHeight), FromInt(b.maxY - b.minY + PADDING * 2))
            Placed(targetZoom) ==
              [zoom |-> targetZoom,
               pan |-> [x |-> FSub(FDiv(FromInt(win.innerWidth), FromInt(2)),
                                   FMul(contentCenterX, targetZoom)),
                        y |-> FSub(FDiv(FromInt(win.innerHeight), FromInt(2)),
                                   FMul(contentCenterY, targetZoom))]]
        IN  CHOOSE r \in { Placed(z) :
                             z \in { FMax(MIN_ZOOM, FMin(FIT_MAX_ZOOM, FMax(scaleX, scaleY))) } } : TRUE
  IN  CHOOSE r \in { Fitted(b) : b \in { FitBounds(currentPieces, 2, start) } } : TRUE

\* zoom and pan that fitToView sets for a piece list that is not empty.  The
\* positions are whole numbers, for which the number operations on the bounds
\* are exact.
FitToView(currentPieces, win) ==
  LET first == currentPieces[1]
      start == [minX |-> first.x, minY |-> first.y,
                maxX |-> first.x + FitWidth(first), maxY |-> first.y + FitHeight(first)]
      Fitted(b) ==
        LET contentCenterX == FAdd(FromInt(b.minX), FDiv(FromInt(b.maxX - b.minX), FromInt(2)))
            contentCenterY == FAdd(FromInt(b.minY), FDiv(FromInt(b.maxY - b.minY), FromInt(2)))
            scaleX == FDiv(FromInt(win.innerWidth), FromInt(b.maxX - b.minX + PADDING * 2))
            scaleY == FDiv(FromInt(win.innerHeight), FromInt(b.maxY - b.minY + PADDING * 2))
            Placed(targetZoom) ==
              [zoom |-> targetZoom,
               pan |-> [x |-> FSub(FDiv(FromInt(win.innerWidth), FromInt(2)),
                                   FMul(contentCenterX, targetZoom)),
                        y |-> FSub(FDiv(FromInt(win.innerHeight), FromInt(2)),
                                   FMul(contentCenterY, targetZoom))]]
        IN  CHOOSE r \in { Placed(z) :
                             z \in { FMax(MIN_ZOOM, FMin(FIT_MAX_ZOOM, FMin(scaleX, scaleY))) } } : TRUE
  IN  CHOOSE r \in { Fitted(b) : b \in { FitBounds(currentPieces, 2, start) } } : TRUE

\* the timeout of a spawn runs fitToView with the piece list of that spawn
FitTimerFires ==
  /\ fitTimer.pending
  /\ fitTimer' = NoFit
  /\ IF Len(fitTimer.pieces) = 0
       THEN UNCHANGED << pan, zoom, isAnimating >>
       ELSE /\ zoom' = FitToView(fitTimer.pieces, window).zoom
            /\ pan' = FitToView(fitTimer.pieces, window).pan
            /\ isAnimating' = TRUE
  /\ lastGesture' = [kind |-> "fit", anchor |-> << >>]
  /\ UNCHANGED << pieces, batchIndex, isGameComplete, timer, drag, mismatchLine, props, panning, sliding, react, screen,
                  completedImageUrl, completions, lastBatch, lastRelease, strays,
                  touchStateRef, window, gestures, probe >>

\* the timeout of fitToView that ends the transition
AnimationEnds ==
  /\ isAnimating
  /\ isAnimating' = FALSE
  /\ UNCHANGED << pieces, batchIndex, isGameComplete, timer, drag, mismatchLine, props, panning, sliding, react, screen,
                  completedImageUrl, completions, lastBatch, lastRelease, strays,
                  pan, zoom, touchStateRef, window, lastGesture, gestures, fitTimer, probe >>

\* variant: the pan is scaled with the zoom, which keeps the world point at
\* the top left corner of the container where it is
AnchoredPanCorner(c, p, z, newZoom) ==
  [x |-> FMul(FDiv(p.x, z), newZoom), y |-> FMul(FDiv(p.y, z), newZoom)]

\* pan that keeps the world point under the screen point c where it is when
\* the zoom goes from z to newZoom
AnchoredPan(c, p, z, newZoom) ==
  [x |-> FSub(c.x, FMul(FDiv(FSub(c.x, p.x), z), newZoom)),
   y |-> FSub(c.y, FMul(FDiv(FSub(c.y, p.y), z), newZoom))]

\* handleWheel: out is e.deltaY > 0, (mouseX, mouseY) the cursor in the
\* container
HandleWheel(out, mouseX, mouseY) ==
  /\ gestures < MaxGestures
  /\ gestures' = gestures + 1
  /\ LET delta == IF out THEN WHEEL_OUT ELSE WHEEL_IN
         newZoom == ClampZoom(FMul(zoom, delta))
         c == [x |-> FromInt(mouseX), y |-> FromInt(mouseY)]
     IN  IF newZoom # zoom
           THEN /\ pan' = AnchoredPan(c, pan, zoom, newZoom)
                /\ zoom' = newZoom
           ELSE UNCHANGED << pan, zoom >>
  /\ lastGesture' = [kind |-> "wheel", anchor |-> << mouseX, mouseY >>, out |-> out]
  /\ UNCHANGED << pieces, batchIndex, isGameComplete, timer, drag, mismatchLine, props, panning, sliding, react, screen,
                  completedImageUrl, completions, lastBatch, lastRelease, strays,
                  isAnimating, touchStateRef, window, fitTimer, probe >>

\* Math.hypot of the difference of two touches whose distance is a whole
\* number
GetTouchDistance(t1, t2) ==
  LET dx == t2.x - t1.x
      dy == t2.y - t1.y
      reach == (IF dx < 0 THEN -dx ELSE dx) + (IF dy < 0 THEN -dy ELSE dy)
  IN  FromInt(CHOOSE r \in 0..reach : r * r = dx * dx + dy * dy)

GetTouchCenter(t1, t2) ==
  [x |-> FDiv(FAdd(FromInt(t1.x), FromInt(t2.x)), FromInt(2)),
   y |-> FDiv(FAdd(FromInt(t1.y), FromInt(t2.y)), FromInt(2))]

\* handleTouchStart with two touches
HandleTouchStart(t1, t2) ==
  /\ gestures < MaxGestures
  /\ gestures' = gestures + 1
  /\ touchStateRef' =
       [lastDistance |-> GetTouchDistance(t1, t2),
        lastCenter |-> GetTouchCenter(t1, t2),
        isPanning |-> TRUE,
        panStart |-> [x |-> FSub(GetTouchCenter(t1, t2).x, pan.x),
                      y |-> FSub(GetTouchCenter(t1, t2).y, pan.y)]]
  /\ lastGesture' = [kind |-> "touchstart", anchor |-> << >>]
  /\ UNCHANGED << pieces, batchIndex, isGameComplete, timer, drag, mismatchLine, props, panning, sliding, react, screen,
                  completedImageUrl, completions, lastBatch, lastRelease, strays,
                  pan, zoom, isAnimating, window, fitTimer, probe >>

\* a number that is neither null nor 0
Truthy(d) == d # << >> /\ d.s # 0

\* handleTouchMove with two touches
HandleTouchMove(t1, t2) ==
  /\ gestures < MaxGestures
  /\ gestures' = gestures + 1
  /\ LET newDist == GetTouchDistance(t1, t2)
         newCenter == GetTouchCenter(t1, t2)
     IN  /\ IF Truthy(touchStateRef.lastDistance)
                THEN LET delta == FDiv(newDist, touchStateRef.lastDistance)
                         newZoom == ClampZoom(FMul(zoom, delta))
                     IN  /\ zoom' = newZoom
                         /\ pan' = AnchoredPan(newCenter, pan, zoom, newZoom)
                ELSE UNCHANGED << pan, zoom >>
         /\ touchStateRef' = [touchStateRef EXCEPT !.lastDistance = newDist,
                                                    !.lastCenter = newCenter]
         /\ lastGesture' = [kind |-> IF Truthy(touchStateRef.lastDistance)
                                       THEN "pinch" ELSE "touchmove",
                            anchor |-> newCenter]
  /\ UNCHANGED << pieces, batchIndex, isGameComplete, timer, drag, mismatchLine, props, panning, sliding, react, screen,
                  completedImageUrl, completions, lastBatch, lastRelease, strays,
                  isAnimating, window, fitTimer, probe >>

HandleTouchEnd ==
  /\ touchStateRef # [touchStateRef EXCEPT !.lastDistance = << >>, !.lastCenter = << >>,
                                           !.isPanning = FALSE]
  /\ touchStateRef' = [touchStateRef EXCEPT !.lastDistance = << >>, !.lastCenter = << >>,
                                            !.isPanning = FALSE]
  /\ lastGesture' = [kind |-> "touchend", anchor |-> << >>]
  /\ UNCHANGED << pieces, batchIndex, isGameComplete, timer, drag, mismatchLine, props, panning, sliding, react, screen,
                  completedImageUrl, completions, lastBatch, lastRelease, strays,
                  pan, zoom, isAnimating, window, gestures, fitTimer, probe >>

\* resetView, called by the menu
ResetView ==
  /\ gestures < MaxGestures
  /\ gestures' = gestures + 1
  /\ pan' = [x |-> FZero, y |-> FZero]
  /\ zoom' = FromInt(1)
  /\ lastGesture' = [kind |-> "reset", anchor |-> << >>]
  /\ UNCHANGED << pieces, batchIndex, isGameComplete, timer, drag, mismatchLine, props, panning, sliding, react, screen,
                  completedImageUrl, completions, lastBatch, lastRelease, strays,
                  isAnimating, touchStateRef, window, fitTimer, probe >>

\* cursor positions of wheel events
WheelPoints == { << 500, 400 >>, << 120, 650 >> }
\* pairs of touches: 100 apart, 500 apart, and on one point
TouchPairs ==
  { << [x |-> 100, y |-> 100], [x |-> 160, y |-> 180] >>,
    << [x |-> 100, y |-> 100], [x |-> 400, y |-> 500] >>,
    << [x |-> 200, y |-> 300], [x |-> 200, y |-> 300] >> }

Wheel == \E out \in BOOLEAN, c \in WheelPoints : HandleWheel(out, c[1], c[2])
TouchStart == \E t \in TouchPairs : HandleTouchStart(t[1], t[2])
TouchMove == \E t \in TouchPairs : HandleTouchMove(t[1], t[2])

\* a short session in which the player moves the viewport and no piece
NextView ==
  \/ InitialSpawn(SessionRandSteps)
  \/ FitTimerFires
  \/ AnimationEnds
  \/ Wheel
  \/ TouchStart
  \/ TouchMove
  \/ HandleTouchEnd
  \/ ResetView

InitView == Mounted(SmallDefs, { "img-a" }, { Desktop })

SpecView == InitView /\ [][NextView]_vars

\* ------------------------------------------------------ fitToView on its own
\* piece lists handed to fitToView: one piece of one block (its id has no
\* definition), a row of the first three pieces, a column, two pieces far
\* apart, a staggered pair, and three pieces around the origin
FitLists ==
  { << [id |-> 99, x |-> 0, y |-> 0] >>,
    << [id |-> 1, x |-> 0, y |-> 0], [id |-> 2, x |-> 240, y |-> 0],
       [id |-> 3, x |-> 480, y |-> 0] >>,
    << [id |-> 1, x |-> 0, y |-> 0], [id |-> 2, x |-> 0, y |-> 333],
       [id |-> 3, x |-> 0, y |-> 777] >>,
    << [id |-> 1, x |-> -3000, y |-> 0], [id |-> 2, x |-> 3000, y |-> 0] >>,
    << [id |-> 3, x |-> 35, y |-> 498], [id |-> 1, x |-> -462, y |-> 191] >>,
    << [id |-> 1, x |-> 100, y |-> 0], [id |-> 2, x |-> 35, y |-> 498],
       [id |-> 3, x |-> -462, y |-> 191] >> }
\* displacements of a whole list
FitShifts == { << dx, dy >> : dx \in { -350, 0, 123 }, dy \in { -77, 0, 410 } }

ShiftedList(list, d) ==
  [i \in 1..Len(list) |-> [list[i] EXCEPT !.x = @ + d[1], !.y = @ + d[2]]]

\* one call of fitToView with a list that is not empty
CallFitToView ==
  \E list \in FitLists, d \in FitShifts :
    /\ ~probe.called
    /\ zoom' = FitToView(ShiftedList(list, d), window).zoom
    /\ pan' = FitToView(ShiftedList(list, d), window).pan
    /\ isAnimating' = TRUE
    /\ probe' = [called |-> TRUE, fn |-> "fitToView", pieces |-> ShiftedList(list, d)]
    /\ UNCHANGED << pieces, batchIndex, isGameComplete, timer, drag, mismatchLine, props, panning, sliding, react, screen,
                    completedImageUrl, completions, lastBatch, lastRelease, strays,
                    touchStateRef, window, fitTimer, lastGesture, gestures >>

NextFit == CallFitToView

InitFit == Mounted(SmallDefs, { "img-a" }, { Desktop, Phone })

SpecFit == InitFit /\ [][NextFit]_vars

\* zoom factors: the two limits, the default, one wheel step down and up from
\* the default, the limit of fitToView, and one half
TransformZooms ==
  { Dec(1, 5), Dec(1, 2), Dec(9, 10), FromInt(1), Dec(11, 10), FromInt(2), FromInt(3) }
\* pans: the default, whole pixels, binary fractions, and decimal fractions
TransformPans ==
  { [x |-> FZero, y |-> FZero],
    [x |-> FromInt(400), y |-> FromInt(300)],
    [x |-> Dec(-75, 2), y |-> Dec(49, 4)],
    [x |-> Dec(1003, 10), y |-> Dec(-7, 10)] }
\* world points: the origin, two spawn positions, and a point between pixels
TransformPoints ==
  { [x |-> FZero, y |-> FZero],
    [x |-> FromInt(35), y |-> FromInt(498)],
    [x |-> FromInt(-462), y |-> FromInt(191)],
    [x |-> Dec(1, 10), y |-> Dec(2503, 10)] }

\* worldToScreen and back with screenToWorld, explored once for every input
RoundTrip ==
  /\ ~probe.called
  /\ \E world \in TransformPoints, p \in TransformPans, z \in TransformZooms :
       probe' = [called |-> TRUE, fn |-> "screenToWorld", world |-> world, pan |-> p, zoom |-> z,
                 screen |-> WorldToScreen(world, p, z),
                 back |-> ScreenToWorld(WorldToScreen(world, p, z), p, z)]
  /\ UNCHANGED << pieces, batchIndex, isGameComplete, timer, drag, mismatchLine, props, panning, sliding, react, screen,
                  completedImageUrl, completions, lastBatch, lastRelease, strays,
                  viewport, fitTimer >>

NextTransform == RoundTrip

SpecTransform == Init /\ [][NextTransform]_vars

\* ------------------------------------------------------------ environment
\* pointer position that puts the held piece at its solved place next to
\* piece i, off by jitter j
Towards(i, j) ==
  [x |-> drag.mouseStart.x
           + (GetExpectedPosition(pieces[i], drag.activeId).x + j[1] - drag.startPos.x),
   y |-> drag.mouseStart.y
           + (GetExpectedPosition(pieces[i], drag.activeId).y + j[2] - drag.startPos.y)]

\* pieces that are not part of the drag
Others == { i \in Indices(pieces) : pieces[i].id \notin DOMAIN drag.groupOffsets }

Down ==
  \E i \in Indices(pieces), o \in ClickOffsets :
    PointerDown(pieces[i].x + o[1], pieces[i].y + o[2])

\* the pointer brings the held piece within the snap distance of a place
MoveNear ==
  /\ drag.activeId # 0
  /\ \E i \in Others, j \in NearJitters : PointerMove(Towards(i, j).x, Towards(i, j).y)
  /\ strays' = strays

\* the pointer brings the held piece somewhere else: exactly at the snap
\* distance of a solved place, or, when every piece is in the held group, aside
MoveAstray ==
  /\ drag.activeId # 0
  /\ strays < MaxStrays
  /\ \/ \E i \in Others, j \in FarJitters : PointerMove(Towards(i, j).x, Towards(i, j).y)
     \/ /\ Others = {}
        /\ \E n \in Nudges : PointerMove(drag.mouseStart.x + n[1], drag.mouseStart.y + n[2])
  /\ strays' = strays + 1

\* ------------------------------------------- findSpawnPosition on its own
\* the angle offsets generateBatchPieces can pass, in quarter radians
ProbeAngles ==
  UNION { { AngleOffset(i, n, rnd) : i \in 0..(n - 1), rnd \in AllRandSteps } : n \in 1..BATCH_SIZE }
\* index of the piece in its batch
ProbeIndexes == 0..(BATCH_SIZE - 1)
\* width and height of the piece to place
ProbeSizes == { << 200, 200 >>, << 400, 100 >> }
ProbeCenters == { << -350, 120 >> }

\* occupied rectangles of a call with centre c and angle offset ao:
\*   "empty"   no rectangle;
\*   "board"   three pieces around the centre;
\*   "sealed"  as many squares as there are attempts, one on the candidate
\*             point of every attempt;
\*   "gap"     the same on every candidate point but the last;
\*   "wall"    one rectangle that covers the candidate points of all attempts
ProbeBoards == { "empty", "board", "sealed", "gap", "wall" }
OnCandidates(c, ao, n) ==
  [i \in 1..n |->
     [x |-> TestPoint(c[1], c[2], Zeros(n), ao, i - 1).x,
      y |-> TestPoint(c[1], c[2], Zeros(n), ao, i - 1).y,
      w |-> BLOCK_SIZE, h |-> BLOCK_SIZE]]
ProbeBoard(kind, c, ao) ==
  CASE kind = "empty" -> << >>
    [] kind = "board" -> << [x |-> c[1] - 100, y |-> c[2] - 100, w |-> 200, h |-> 200],
                            [x |-> c[1] + 400, y |-> c[2] - 300, w |-> 300, h |-> 200],
                            [x |-> c[1] - 500, y |-> c[2] + 100, w |-> 400, h |-> 100] >>
    [] kind = "sealed" -> OnCandidates(c, ao, MAX_PLACEMENT_ATTEMPTS)
    [] kind = "gap" -> OnCandidates(c, ao, MAX_PLACEMENT_ATTEMPTS - 1)
    [] kind = "wall" -> << [x |-> c[1] - 2000, y |-> c[2] - 2000, w |-> 4000, h |-> 4000] >>

\* one call of findSpawnPosition, explored once for every input; attempts
\* counts the passes of its loop
ProbeSpawn ==
  /\ ~probe.called
  /\ \E size \in ProbeSizes, c \in ProbeCenters, ao \in ProbeAngles,
        index \in ProbeIndexes, kind \in ProbeBoards :
       LET occupiedRects == ProbeBoard(kind, c, ao)
       IN  probe' = [called |-> TRUE, fn |-> "findSpawnPosition", w |-> size[1], h |-> size[2],
                     centerX |-> c[1], centerY |-> c[2], occupiedRects |-> occupiedRects,
                     index |-> index, angleOffset |-> ao,
                     result |-> FindSpawnPosition(size[1], size[2], c[1], c[2],
                                                  occupiedRects, index, ao),
                     attempts |-> Min(FirstFreeAttempt(size[1], size[2], c[1], c[2],
                                                       occupiedRects, ao, 0) + 1,
                                      MAX_PLACEMENT_ATTEMPTS)]
  /\ UNCHANGED << pieces, batchIndex, isGameComplete, timer, drag, mismatchLine, props, panning, sliding, react, screen,
                  completedImageUrl, completions, lastBatch, lastRelease, strays,
                  viewport, fitTimer >>

NextPlace == ProbeSpawn

SpecPlace == Init /\ [][NextPlace]_vars

\* a short session with a player who also drops pieces off target
Next ==
  \/ InitialSpawn(SessionRandSteps)
  \/ Tick
  \/ CompleteTimerFires
  \/ Down
  \/ MoveNear
  \/ MoveAstray
  \/ PointerUp

Spec == Init /\ [][Next]_vars

\* a session of several batches with a player who drops every piece within
\* the snap distance of a solved place
NextBatch ==
  \/ InitialSpawn(SessionRandSteps)
  \/ Tick
  \/ BatchTimerFires(SessionRandSteps)
  \/ CompleteTimerFires
  \/ Down
  \/ MoveNear
  \/ PointerUp

SpecBatch == InitBatch /\ [][NextBatch]_vars

\* the first batch for every value of Math.random()
NextSpawn == InitialSpawn(AllRandSteps)

SpecSpawn == InitBatch /\ [][NextSpawn]_vars

\* a player who adds one piece after the other to the group of the first
\* piece of the list, and who may press and release what is welded
MoveToFirst ==
  /\ drag.activeId # 0
  /\ 1 \in Others
  /\ \E j \in NearJitters : PointerMove(Towards(1, j).x, Towards(1, j).y)
  /\ strays' = strays

\* the session of several batches with that player on a running clock: a
\* pending setTimeout counts down and its callback runs when the delay is
\* over; the player is free to act or not
NextProgress ==
  \/ InitialSpawn(SessionRandSteps)
  \/ Tick
  \/ BatchTimerFires(SessionRandSteps)
  \/ CompleteTimerFires
  \/ Down
  \/ MoveToFirst
  \/ PointerUp

InitProgress == Mounted(NumDefs, ImageUrls, { Desktop })

\* the step of BatchTimerFires, whatever Math.random() returns: no other
\* step advances batchIndex
BatchAdvance ==
  /\ screen = "game"
  /\ timer.kind = "batch" /\ timer.left = 0
  /\ batchIndex' = batchIndex + 1

Fairness ==
  /\ WF_vars(Tick)
  /\ WF_batchIndex(BatchAdvance)
  /\ WF_vars(CompleteTimerFires)

SpecProgress == InitProgress /\ [][NextProgress]_vars /\ Fairness

\* ------------------------------------------------------------- properties
\* the step of a release: only handlePointerUp ends a drag
ReleaseStep == drag.activeId # 0 /\ drag'.activeId = 0

\* group of the piece that is held
HeldGroupId == PieceById(pieces, drag.activeId).groupId

\* pairs << i, j >> of list positions: i in the dragged group, j in another
\* group, and the two pass the neighbour test
NeighborPairs ==
  { pr \in Indices(pieces) \X Indices(pieces) :
      /\ pieces[pr[1]].groupId = HeldGroupId
      /\ pieces[pr[2]].groupId # HeldGroupId
      /\ AreNeighbors(pieces[pr[1]], pieces[pr[2]]) }

\* the pair of NeighborPairs that comes first in the order of the scan
FirstNeighborPair ==
  CHOOSE pr \in NeighborPairs :
    \A q \in NeighborPairs : pr[1] < q[1] \/ (pr[1] = q[1] /\ pr[2] <= q[2])

\* after the step the pieces at list positions i and j are one group and the
\* first is exactly at its solved place next to the second
WeldedAfter(i, j) ==
  /\ pieces'[i].groupId = pieces'[j].groupId
  /\ pieces'[i].x = GetExpectedPosition(pieces'[j], pieces'[i].id).x
  /\ pieces'[i].y = GetExpectedPosition(pieces'[j], pieces'[i].id).y

\* the step leaves the piece at list position i where and in the group it was
StaysPut(i) ==
  /\ pieces'[i].id = pieces[i].id
  /\ pieces'[i].x = pieces[i].x
  /\ pieces'[i].y = pieces[i].y
  /\ pieces'[i].groupId = pieces[i].groupId
  /\ pieces'[i].isLocked = pieces[i].isLocked

C2_ReleaseWithoutMatch ==
  [][ReleaseStep /\ NeighborPairs = {} =>
       /\ Len(pieces') = Len(pieces)
       /\ \A i \in Indices(pieces) :
            /\ StaysPut(i)
            /\ pieces'[i].zIndex = IF pieces[i].groupId = HeldGroupId
                                     THEN Z_RESET ELSE pieces[i].zIndex]_vars

\* squared distance of p1 from its solved place next to p2
Deviation2(p1, p2) ==
  (p1.x - GetExpectedPosition(p2, p1.id).x) * (p1.x - GetExpectedPosition(p2, p1.id).x)
  + (p1.y - GetExpectedPosition(p2, p1.id).y) * (p1.y - GetExpectedPosition(p2, p1.id).y)

\* a group was released exactly at the snap distance from a solved place and
\* stayed a group of its own, while a piece outside it keeps its spawn zIndex
C2_Witness ==
  /\ lastRelease.kind = "kept"
  /\ drag.activeId = 0
  /\ \E i, j \in Indices(pieces) :
       /\ pieces[i].groupId = lastRelease.sourceGroupId
       /\ pieces[j].groupId # lastRelease.sourceGroupId
       /\ Deviation2(pieces[i], pieces[j]) = SNAP_THRESHOLD * SNAP_THRESHOLD
       /\ pieces[j].zIndex # Z_RESET

C4_WeldsPermanent ==
  [][\A i, j \in Indices(pieces) :
       pieces[i].groupId = pieces[j].groupId =>
         /\ i \in Indices(pieces') /\ j \in Indices(pieces')
         /\ pieces'[i].id = pieces[i].id /\ pieces'[j].id = pieces[j].id
         /\ pieces'[i].groupId = pieces'[j].groupId]_vars

\* a group of several pieces has been merged into another group after a later
\* batch was spawned
C4_Witness ==
  /\ batchIndex > 0
  /\ lastRelease.kind = "merged"
  /\ Cardinality({ i \in Indices(pieces) :
                     pieces[i].groupId = lastRelease.targetGroupId }) > BATCH_SIZE

\* C5: a release never merges a group with itself: the pair it snaps is of two
\* different groups, and a release while all pieces are one group changes no
\* position and no groupId.
C5_NoSelfMerge ==
  [][ReleaseStep =>
       /\ lastRelease'.kind = "merged" =>
            PieceById(pieces, lastRelease'.sId).groupId
              # PieceById(pieces, lastRelease'.tId).groupId
       /\ Cardinality(GroupIds(pieces)) = 1 =>
            /\ lastRelease'.kind = "kept"
            /\ \A i \in Indices(pieces) : StaysPut(i)]_vars

\* the finished group of a short session was moved and released
C5_Witness ==
  /\ lastRelease.kind = "kept"
  /\ drag.activeId = 0
  /\ strays > 0
  /\ Len(pieces) > 1
  /\ Cardinality(GroupIds(pieces)) = 1


\* all spawned pieces are one group and definitions are left to spawn
BatchWelded ==
  /\ Len(pieces) > 0
  /\ Cardinality(GroupIds(pieces)) = 1
  /\ Len(pieces) < Len(pieceDefinitions)

\* all definitions are spawned and the pieces are one group
AllWelded ==
  /\ Len(pieces) = Len(pieceDefinitions)
  /\ Cardinality(GroupIds(pieces)) = 1

PlayerActs == Down \/ MoveToFirst \/ PointerUp

\* the callback has run exactly once when the game screen has been left, and
\* not before; it ran in a state with every piece spawned and welded
CompletionCount ==
  /\ completions <= 1
  /\ (completions = 1) <=> (screen = "end")
  /\ completions = 1 => AllWelded

\* C7 as stated: once all definitions are spawned and welded into one group
\* the completion callback is called exactly once, also when pointer events
\* on the finished puzzle change the piece list again.
C7_CompletionExactlyOnce ==
  /\ []CompletionCount
  /\ AllWelded ~> (completions = 1)

\* C7 (amended): the completion callback is called at most once in a
\* session, and exactly once after all definitions are spawned and welded
\* unless the player's pointer events on pieces never stop: each of them
\* restarts the delay of the callback.
C7_OnceUnlessPlayerNeverRests ==
  /\ []CompletionCount
  /\ \/ []<><<PlayerActs>>_vars
     \/ AllWelded ~> (completions = 1)

\* the callback ran after the finished puzzle was pressed and released
C7_Witness ==
  /\ completions = 1
  /\ lastRelease.kind = "kept"
  /\ \A i \in Indices(pieces) : pieces[i].zIndex = Z_RESET

\* C8: when the completion callback has been called, every definition has a
\* piece, all pieces are one group, and the callback got the image reference
\* of the session.
C8_CompletionNotEarly ==
  completions > 0 =>
    /\ Len(pieces) = Len(pieceDefinitions)
    /\ \A i \in 1..Len(pieceDefinitions) : HasPiece(pieces, pieceDefinitions[i].id)
    /\ Cardinality(GroupIds(pieces)) = 1
    /\ completedImageUrl = imageUrl

\* the callback ran in a session of the second image
C8_Witness ==
  /\ completions = 1
  /\ imageUrl = "img-b"
  /\ completedImageUrl = "img-b"
  /\ batchIndex > 0

\* index of the last batch of the full table
LastBatchIndex == (Len(PIECE_DEFINITIONS) - 1) \div BATCH_SIZE

PaddedRect(g) ==
  TestRect([x |-> g.x, y |-> g.y], DefOf(g.id).width * BLOCK_SIZE, DefOf(g.id).height * BLOCK_SIZE)

\* C10: after a spawn, the padded rectangle of a new piece that was not
\* placed by the fallback overlaps the padded rectangle of no other piece.
C10_PaddedSpawnDisjoint ==
  \A i, j \in 1..Len(lastBatch) :
    (i # j /\ ~lastBatch[i].fallback) => ~RectsOverlap(PaddedRect(lastBatch[i]), PaddedRect(lastBatch[j]))

\* the candidate of attempt a of the latest findSpawnPosition call collides
ProbeCollides(a) ==
  HasOverlap(TestRect(TestPoint(probe.centerX, probe.centerY, probe.occupiedRects,
                                probe.angleOffset, a),
                      probe.w, probe.h),
             probe.occupiedRects)

ProbeAttempts == 0..(MAX_PLACEMENT_ATTEMPTS - 1)

\* C11: every call of findSpawnPosition returns a point after at most
\* MAX_PLACEMENT_ATTEMPTS passes of the loop: the candidate of the first
\* attempt that collides with nothing, and when the candidates of all attempts
\* collide the point (centerX + 1000 + index * 200, centerY).
C11_SpawnPlacementTotal ==
  probe.fn = "findSpawnPosition" =>
    /\ probe.attempts \in 1..MAX_PLACEMENT_ATTEMPTS
    /\ probe.result \in [x : Int, y : Int]
    /\ IF \A a \in ProbeAttempts : ProbeCollides(a)
         THEN /\ probe.attempts = MAX_PLACEMENT_ATTEMPTS
              /\ probe.result = [x |-> probe.centerX + FALLBACK_DISTANCE
                                        + probe.index * FALLBACK_STEP,
                                 y |-> probe.centerY]
         ELSE \E a \in ProbeAttempts :
                /\ ~ProbeCollides(a)
                /\ \A b \in 0..(a - 1) : ProbeCollides(b)
                /\ probe.attempts = a + 1
                /\ probe.result = TestPoint(probe.centerX, probe.centerY, probe.occupiedRects,
                                            probe.angleOffset, a)

\* a call whose candidates all collide, for a piece that is not the first of
\* its batch, has returned the far-away point
C11_Witness ==
  /\ probe.fn = "findSpawnPosition"
  /\ probe.index > 0
  /\ Len(probe.occupiedRects) = MAX_PLACEMENT_ATTEMPTS
  /\ \A a \in ProbeAttempts : ProbeCollides(a)
  /\ probe.result.x = probe.centerX + FALLBACK_DISTANCE + probe.index * FALLBACK_STEP
\* C12 as stated: a world point that is taken to the screen and back with the
\* same pan and zoom is the point it was.
C12_RoundTripExact ==
  probe.fn = "screenToWorld" => probe.back = probe.world

\* one billionth of a pixel
RoundTripTolerance == Dec(1, 1000000000)

\* C12 (amended): a world point that is taken to the screen and back with the
\* same pan and zoom is the point it was up to the rounding of the four
\* number operations: each coordinate is off by less than a billionth of a
\* pixel, and by nothing when the point and the pan are whole numbers and the
\* zoom is a power of two.
C12_RoundTripWithinRounding ==
  probe.fn = "screenToWorld" =>
    /\ FLess(FAbs(FSub(probe.back.x, probe.world.x)), RoundTripTolerance)
    /\ FLess(FAbs(FSub(probe.back.y, probe.world.y)), RoundTripTolerance)
    /\ ( /\ FIsPowerOfTwo(probe.zoom)
         /\ FIsInteger(probe.world.x) /\ FIsInteger(probe.world.y)
         /\ FIsInteger(probe.pan.x) /\ FIsInteger(probe.pan.y) )
       => probe.back = probe.world

\* a spawn position went to the screen and back with a pan and one wheel step
\* of zoom, and came back next to where it was
C12_Witness ==
  /\ probe.fn = "screenToWorld"
  /\ probe.zoom = Dec(9, 10)
  /\ probe.pan.x # FZero
  /\ FIsInteger(probe.world.x) /\ probe.world.x # FZero
  /\ probe.back # probe.world
HeldIndices == { i \in Indices(pieces) : pieces[i].groupId = HeldGroupId }

\* C14: a release that merges moves every piece of the dragged group by one
\* and the same translation and gives it the groupId of the matched target
\* piece; no other piece changes its position or its groupId, and no piece is
\* added, removed or reordered.
C14_MergeStep ==
  [][ReleaseStep /\ lastRelease'.kind = "merged" =>
       LET k == CHOOSE i \in HeldIndices : TRUE
           dx == pieces'[k].x - pieces[k].x
           dy == pieces'[k].y - pieces[k].y
       IN  /\ Len(pieces') = Len(pieces)
           /\ \A i \in Indices(pieces) :
                /\ pieces'[i].id = pieces[i].id
                /\ IF i \in HeldIndices
                     THEN /\ pieces'[i].x = pieces[i].x + dx
                          /\ pieces'[i].y = pieces[i].y + dy
                          /\ pieces'[i].groupId = PieceById(pieces, lastRelease'.tId).groupId
                     ELSE StaysPut(i)]_vars

\* a group of several pieces was snapped by a translation that is not zero:
\* the matching piece carried the groupId of another member of its group
C14_Witness ==
  /\ lastRelease.kind = "merged"
  /\ drag.activeId = 0
  /\ lastRelease.sId # lastRelease.sourceGroupId
  /\ lastRelease.adjustX # 0 /\ lastRelease.adjustY # 0
  /\ \A i \in Indices(pieces) : pieces[i].groupId = lastRelease.targetGroupId

\* C15: no step lowers the number of groupIds in use by more than one; a
\* release that merges lowers it by exactly one, also when pieces of several
\* other groups pass the neighbour test with the dragged group.
C15_OneMergePerRelease ==
  [][/\ Len(pieces) > 0 =>
          Cardinality(GroupIds(pieces')) >= Cardinality(GroupIds(pieces)) - 1
     /\ ReleaseStep /\ lastRelease'.kind = "merged" =>
          Cardinality(GroupIds(pieces')) = Cardinality(GroupIds(pieces)) - 1]_vars

\* a release found neighbours in two other groups and merged with one of
\* them: the other group is still a group of its own
C15_Witness ==
  /\ lastRelease.kind = "merged"
  /\ drag.activeId = 0
  /\ Cardinality(lastRelease.matched) >= 2
  /\ \E g \in lastRelease.matched :
       /\ g # lastRelease.targetGroupId
       /\ g \in GroupIds(pieces)
C17_ZoomBounds ==
  /\ [](FAtMost(MIN_ZOOM, zoom) /\ FAtMost(zoom, MAX_ZOOM))
  /\ [][(fitTimer.pending /\ ~fitTimer'.pending /\ Len(fitTimer.pieces) > 0)
          => (FAtMost(MIN_ZOOM, zoom') /\ FAtMost(zoom', FIT_MAX_ZOOM))]_vars

\* the pieces were fitted, two fingers spread to five times their distance
\* and a wheel event asked for more: the zoom is at the upper limit
C17_Witness ==
  /\ Len(pieces) > 0
  /\ ~fitTimer.pending
  /\ isAnimating
  /\ gestures = 3
  /\ lastGesture.kind = "wheel"
  /\ zoom = MAX_ZOOM

\* the union of the world rectangles of a piece list
UnionBox(list) ==
  LET I == 1..Len(list)
      lo(f) == CHOOSE v \in { f[i] : i \in I } : \A i \in I : v <= f[i]
      hi(f) == CHOOSE v \in { f[i] : i \in I } : \A i \in I : v >= f[i]
  IN  [minX |-> lo([i \in I |-> list[i].x]),
       minY |-> lo([i \in I |-> list[i].y]),
       maxX |-> hi([i \in I |-> list[i].x + FitWidth(list[i])]),
       maxY |-> hi([i \in I |-> list[i].y + FitHeight(list[i])])]

\* the zoom that fits the box with 100px around it into the window, kept
\* between 0.2 and 2
FittingZoom(box, win) ==
  LET sx == FDiv(FromInt(win.innerWidth), FromInt(box.maxX - box.minX + 200))
      sy == FDiv(FromInt(win.innerHeight), FromInt(box.maxY - box.minY + 200))
      fit == IF FLess(sx, sy) THEN sx ELSE sy
  IN  IF FLess(fit, Dec(2, 10)) THEN Dec(2, 10)
      ELSE IF FLess(FromInt(2), fit) THEN FromInt(2) ELSE fit

\* the screen position of the centre of the box
BoxCentreOnScreen(box) ==
  WorldToScreen([x |-> Dec(box.minX + box.maxX, 2), y |-> Dec(box.minY + box.maxY, 2)],
                pan, zoom)

WindowCentre == [x |-> Dec(window.innerWidth, 2), y |-> Dec(window.innerHeight, 2)]

\* C18 as stated: after fitToView on a list that is not empty the zoom is
\* the fitting zoom of the union box and the centre of the union box is
\* drawn exactly at the centre of the window.
C18_FitCentresExactly ==
  (probe.called /\ probe.fn = "fitToView") =>
    /\ zoom = FittingZoom(UnionBox(probe.pieces), window)
    /\ BoxCentreOnScreen(UnionBox(probe.pieces)) = WindowCentre

FitTolerance == Dec(1, 1000000000)

\* C18: after fitToView on a list that is not empty the zoom is the fitting
\* zoom of the union box, and the centre of the union box is drawn within
\* 1e-9 px of the centre of the window; one piece of 100x100 at (0,0) in a
\* window of 1000x800 gets zoom 2 and its centre exactly at (500,400).
C18_FitCentres ==
  (probe.called /\ probe.fn = "fitToView") =>
    /\ zoom = FittingZoom(UnionBox(probe.pieces), window)
    /\ FAtMost(FAbs(FSub(BoxCentreOnScreen(UnionBox(probe.pieces)).x, WindowCentre.x)),
               FitTolerance)
    /\ FAtMost(FAbs(FSub(BoxCentreOnScreen(UnionBox(probe.pieces)).y, WindowCentre.y)),
               FitTolerance)
    /\ (probe.pieces = << [id |-> 99, x |-> 0, y |-> 0] >> /\ window = Desktop) =>
         /\ zoom = FromInt(2)
         /\ WorldToScreen([x |-> FromInt(50), y |-> FromInt(50)], pan, zoom)
              = [x |-> FromInt(500), y |-> FromInt(400)]

\* a list whose fitting zoom lies strictly between the limits was fitted and
\* its centre is drawn off the centre of the window by a rounding error
C18_Witness ==
  /\ probe.called
  /\ probe.fn = "fitToView"
  /\ Len(probe.pieces) = 3
  /\ FLess(MIN_ZOOM, zoom)
  /\ FLess(zoom, FIT_MAX_ZOOM)
  /\ BoxCentreOnScreen(UnionBox(probe.pieces)) # WindowCentre

\* a step of handleWheel
WheelStep == gestures' = gestures + 1 /\ lastGesture'.kind = "wheel"

\* a step of handleTouchMove that had a distance to compare with
PinchStep == gestures' = gestures + 1 /\ lastGesture'.kind = "pinch"

\* the zoom a wheel event asks for, kept between 0.2 and 3
WheelShrink == Dec(9, 10)
WheelGrow == Dec(11, 10)
WheelFloor == Dec(2, 10)
WheelCeiling == FromInt(3)
WheelZoom(z, out) ==
  LET asked == FMul(z, IF out THEN WheelShrink ELSE WheelGrow)
  IN  IF FLess(asked, WheelFloor) THEN WheelFloor
      ELSE IF FLess(WheelCeiling, asked) THEN WheelCeiling ELSE asked

\* two points differ by at most tol in each coordinate
PointsWithin(a, b, tol) ==
  /\ FAtMost(FAbs(FSub(a.x, b.x)), tol)
  /\ FAtMost(FAbs(FSub(a.y, b.y)), tol)

\* the world point drawn at the screen point c is the same before and after
\* the step
AnchorSame(c) == ScreenToWorld(c, pan', zoom') = ScreenToWorld(c, pan, zoom)

\* the world point drawn at the screen point c before the step is drawn
\* within tol of c after the step
AnchorKept(c, tol) ==
  PointsWithin(WorldToScreen(ScreenToWorld(c, pan, zoom), pan', zoom'), c, tol)

WheelCursor == [x |-> FromInt(lastGesture'.anchor[1]), y |-> FromInt(lastGesture'.anchor[2])]

\* C19 as stated: a wheel event that changes the zoom leaves exactly the
\* same world point under the cursor, a two-finger update leaves exactly the
\* same world point under the midpoint of the touches, and a wheel event
\* whose limited zoom is the old zoom changes neither pan nor zoom.
C19_AnchorExact ==
  [][/\ (WheelStep =>
          IF WheelZoom(zoom, lastGesture'.out) = zoom
            THEN pan' = pan /\ zoom' = zoom
            ELSE (zoom' # zoom => AnchorSame(WheelCursor)))
      /\ (PinchStep => AnchorSame(lastGesture'.anchor))]_vars

AnchorTolerance == Dec(1, 1000000000)

\* C19: a wheel event sets the zoom to the limited product; when that is
\* the old zoom it changes neither pan nor zoom, and otherwise the world
\* point that was under the cursor is drawn within 1e-9 px of the cursor
\* afterwards; after a two-finger update the world point that was under the
\* midpoint of the touches is drawn within 1e-9 px of that midpoint.
C19_AnchorWithinRounding ==
  [][/\ (WheelStep =>
          /\ zoom' = WheelZoom(zoom, lastGesture'.out)
          /\ IF zoom' = zoom THEN pan' = pan
                            ELSE AnchorKept(WheelCursor, AnchorTolerance))
      /\ (PinchStep => AnchorKept(lastGesture'.anchor, AnchorTolerance))]_vars

\* after the fit two fingers moved to a distance of 500 and a wheel event
\* away from their midpoint then set the zoom to a value within the limits
C19_Witness ==
  /\ ~fitTimer.pending
  /\ Len(pieces) > 0
  /\ gestures = 3
  /\ lastGesture.kind = "wheel"
  /\ lastGesture.anchor = << 120, 650 >>
  /\ touchStateRef.isPanning
  /\ touchStateRef.lastDistance = FromInt(500)
  /\ FLess(MIN_ZOOM, zoom)
  /\ FLess(zoom, MAX_ZOOM)
  /\ zoom # FromInt(1)
  /\ pan.x # FZero

\* C20: after a release that merges, the pieces of the dragged group and of
\* the target group all carry the lower of the two groupIds the groups had.
C20_MergedIdIsLower ==
  [][ReleaseStep /\ lastRelease'.kind = "merged" =>
       LET sourceGroupId == HeldGroupId
           targetGroupId == PieceById(pieces, lastRelease'.tId).groupId
       IN  \A i \in Indices(pieces) :
             pieces[i].groupId \in { sourceGroupId, targetGroupId } =>
               pieces'[i].groupId = Min(sourceGroupId, targetGroupId)]_vars

\* the timers the completion effect can set, at their full delay
FreshTimers ==
  { NoTimer,
    [kind |-> "batch", left |-> BATCH_DELAY_MS],
    [kind |-> "complete", left |-> COMPLETE_DELAY_MS] }

Blank == [innerWidth |-> 0, innerHeight |-> 0]

\* a Game that is mounted with an empty definition list or with three
\* definitions, in a desktop window or in a window without an area
InitDegenerate ==
  \E defCount \in { 0, SmallDefs } : Mounted(defCount, { "img-a" }, { Desktop, Blank })

\* the initial-spawn effect with an empty definition list: generateBatchPieces
\* returns [], setPieces([]) leaves an empty list, and the fitToView timeout
\* is set with that list.  The effect does not run again: none of its
\* dependencies changes.
InitialSpawnNothing ==
  /\ screen = "game"
  /\ Len(pieces) = 0 /\ batchIndex = 0
  /\ Len(BatchDefs(0)) = 0
  /\ fitTimer = NoFit /\ lastGesture = NoGesture
  /\ SetPieces(<< >>)
  /\ lastBatch' = << >>
  /\ fitTimer' = [pending |-> TRUE, pieces |-> << >>]
  /\ UNCHANGED << batchIndex, drag, mismatchLine, props, panning, sliding, react, screen,
                  completedImageUrl, completions, lastRelease, strays, viewport, probe >>

\* one call of fitToView with any list, the empty one included
CallFitToViewAny ==
  \E list \in FitLists \cup { << >> }, d \in FitShifts :
    /\ ~probe.called
    /\ IF Len(list) = 0
         THEN UNCHANGED << zoom, pan, isAnimating >>
         ELSE /\ zoom' = FitToView(ShiftedList(list, d), window).zoom
              /\ pan' = FitToView(ShiftedList(list, d), window).pan
              /\ isAnimating' = TRUE
    /\ probe' = [called |-> TRUE, fn |-> "fitToView", pieces |-> ShiftedList(list, d)]
    /\ UNCHANGED << pieces, batchIndex, isGameComplete, timer, drag, mismatchLine, props, panning, sliding, react, screen,
                    completedImageUrl, completions, lastBatch, lastRelease, strays,
                    touchStateRef, window, fitTimer, lastGesture, gestures >>

NextDegenerate ==
  \/ InitialSpawn(SessionRandSteps)
  \/ InitialSpawnNothing
  \/ FitTimerFires
  \/ CallFitToViewAny

SpecDegenerate == InitDegenerate /\ [][NextDegenerate]_vars

\* the step is a run of fitToView with zero pieces or in a window without an
\* area: the timeout of a spawn, or a call
DegenerateFit ==
  \/ /\ fitTimer.pending /\ ~fitTimer'.pending
     /\ Len(fitTimer.pieces) = 0 \/ window.innerWidth = 0 \/ window.innerHeight = 0
  \/ /\ ~probe.called /\ probe'.called
     /\ Len(probe'.pieces) = 0 \/ window.innerWidth = 0 \/ window.innerHeight = 0

\* the step is a spawn for which the definition list has nothing
DegenerateSpawn ==
  /\ ~fitTimer.pending /\ fitTimer'.pending
  /\ Len(BatchDefs(batchIndex')) = 0

\* C22: fitToView with zero pieces or in a window without an area, and a
\* spawn for which no definition is left, leave pan, zoom and the piece list
\* as they were.
C22_DegenerateInputsAreNoOps ==
  [][DegenerateFit \/ DegenerateSpawn =>
       pan' = pan /\ zoom' = zoom /\ pieces' = pieces]_vars

\* ------------------------------------------------------ useSlidingPuzzle
GRID_SIZE == 3
EMPTY_TILE == 8
SHUFFLE_MOVES == 15
\* moves of a session that are explored
MaxMoves == 3
\* Math.random() is explored in steps of one RANDOM_STEPS-th
RANDOM_STEPS == 10

\* positions of the board
Cells == 0..(GRID_SIZE * GRID_SIZE - 1)
SOLVED_STATE == [i \in Cells |-> i]

IsSolved(b) == \A index \in Cells : b[index] = SOLVED_STATE[index]

\* board.indexOf(EMPTY_TILE)
GetEmptyPosition(b) ==
  IF \E p \in Cells : b[p] = EMPTY_TILE
    THEN CHOOSE p \in Cells : b[p] = EMPTY_TILE /\ \A q \in Cells : b[q] = EMPTY_TILE => p <= q
    ELSE -1

GetRowCol(position) == [row |-> position \div GRID_SIZE, col |-> position % GRID_SIZE]

Abs(n) == IF n < 0 THEN -n ELSE n

IsAdjacentToEmpty(b, position) ==
  LET rowDiff == Abs(GetRowCol(GetEmptyPosition(b)).row - GetRowCol(position).row)
      colDiff == Abs(GetRowCol(GetEmptyPosition(b)).col - GetRowCol(position).col)
  IN  (rowDiff = 1 /\ colDiff = 0) \/ (rowDiff = 0 /\ colDiff = 1)

\* positions next to the empty one, in the order up, down, left, right
GetAdjacentPositions(emptyPos) ==
  LET row == GetRowCol(emptyPos).row
      col == GetRowCol(emptyPos).col
  IN  (IF row > 0 THEN << (row - 1) * GRID_SIZE + col >> ELSE << >>)
      \o (IF row < GRID_SIZE - 1 THEN << (row + 1) * GRID_SIZE + col >> ELSE << >>)
      \o (IF col > 0 THEN << row * GRID_SIZE + (col - 1) >> ELSE << >>)
      \o (IF col < GRID_SIZE - 1 THEN << row * GRID_SIZE + (col + 1) >> ELSE << >>)

\* [b[p], b[q]] = [b[q], b[p]]
SwapAt(b, p, q) == [b EXCEPT ![p] = b[q], ![q] = b[p]]

\* Math.floor(Math.random() * n) for Math.random() = r / RANDOM_STEPS
RandomIndex(r, n) == (r * n) \div RANDOM_STEPS

\* the positions but the last moved one
ValidMoves(adjacent, lastMove) ==
  LET NotLast(pos) == pos # lastMove
  IN  SelectSeq(adjacent, NotLast)

\* the loop of the generator that makes random moves, from pass i on; draws
\* holds the value of Math.random() of every pass
RECURSIVE ShuffleFrom(_, _, _, _)
ShuffleFrom(b, lastMove, draws, i) ==
  IF i > SHUFFLE_MOVES THEN b
  ELSE LET emptyPos == GetEmptyPosition(b)
           validMoves == ValidMoves(GetAdjacentPositions(emptyPos), lastMove)
           randomPos == validMoves[RandomIndex(draws[i], Len(validMoves)) + 1]
       IN  ShuffleFrom(SwapAt(b, emptyPos, randomPos), emptyPos, draws, i + 1)

\* generateShuffledBoard of the hook that shuffles by random moves
GenerateShuffledBoardByMoves(draws) == ShuffleFrom(SOLVED_STATE, -1, draws, 1)

\* inversions among the tiles, the empty one left out
CountInversions(b) ==
  Cardinality({ pr \in Cells \X Cells :
                  /\ pr[1] < pr[2]
                  /\ b[pr[1]] # EMPTY_TILE /\ b[pr[2]] # EMPTY_TILE
                  /\ b[pr[1]] > b[pr[2]] })

\* variant: every board counts as solvable
IsSolvableAlways(b) == TRUE

IsSolvable(b) == CountInversions(b) % 2 = 0

\* the Fisher-Yates loop from index i down; draws[i] is the value of
\* Math.random() of the pass with index i
RECURSIVE FisherYatesFrom(_, _, _)
FisherYatesFrom(b, i, draws) ==
  IF i <= 0 THEN b
  ELSE FisherYatesFrom(SwapAt(b, i, RandomIndex(draws[i], i + 1)), i - 1, draws)

FisherYates(draws) == FisherYatesFrom(SOLVED_STATE, GRID_SIZE * GRID_SIZE - 1, draws)

\* the do-while loop from pass k on: run[k] holds the draws of pass k; << >>
\* when the loop is not over after the last pass of run
RECURSIVE ShuffleUntilAccepted(_, _)
ShuffleUntilAccepted(run, k) ==
  IF k > Len(run) THEN << >>
  ELSE IF ~IsSolvable(FisherYates(run[k])) \/ IsSolved(FisherYates(run[k]))
    THEN ShuffleUntilAccepted(run, k + 1)
    ELSE FisherYates(run[k])

\* generateShuffledBoard of the hook that shuffles and counts inversions
GenerateShuffledBoard(run) == ShuffleUntilAccepted(run, 1)

\* values of Math.random() of the passes of a shuffle by moves: every choice
\* among one, two and three positions occurs
MoveDraws ==
  { [i \in 1..SHUFFLE_MOVES |-> pat[((i - 1) % 3) + 1]] : pat \in [1..3 -> { 0, 4, 7 }] }
\* values of Math.random() of the passes of one Fisher-Yates shuffle
FisherDraws ==
  { [i \in 1..(GRID_SIZE * GRID_SIZE - 1) |-> pat[(i % 2) + 1]] :
      pat \in [1..2 -> { 0, 2, 5, 7, 9 }] }
\* draws that leave the board solved, and draws that swap an odd number of
\* times
IdleDraws == [i \in 1..(GRID_SIZE * GRID_SIZE - 1) |-> 9]
OddDraws == [i \in 1..(GRID_SIZE * GRID_SIZE - 1) |-> 0]
\* passes of the do-while loop: one, or one after idle or odd draws
ShuffleRuns ==
  { << d >> : d \in FisherDraws }
    \cup { << IdleDraws, d >> : d \in FisherDraws }
    \cup { << OddDraws, d >> : d \in FisherDraws }

\* boards the generator of the mounted hook can return
GeneratedBoards(hook) ==
  IF hook = "moves"
    THEN { GenerateShuffledBoardByMoves(d) : d \in MoveDraws }
    ELSE { GenerateShuffledBoard(run) : run \in ShuffleRuns } \ { << >> }

\* a mounted useSlidingPuzzle: useState(() => generateShuffledBoard())
InitSliding ==
  /\ slidingHook \in { "moves", "inversions" }
  /\ board \in GeneratedBoards(slidingHook)
  /\ moves = 0
  /\ hasCompleted = FALSE
  /\ slidingTimer = FALSE
  /\ lastTile = -1
  /\ queued = { }
  /\ rendered = [pieces |-> << >>, batchIndex |-> 0, effects |-> { }]
  /\ listening = << >>
  /\ firedHeld = 0
  /\ late = 0
  /\ urgent = FALSE
  /\ pieceDefinitions = << >>
  /\ imageUrl = "img-a"
  /\ window = Desktop
  /\ pan = [x |-> FZero, y |-> FZero]
  /\ zoom = FromInt(1)
  /\ isAnimating = FALSE
  /\ touchStateRef = NoTouch
  /\ fitTimer = NoFit
  /\ lastGesture = NoGesture
  /\ gestures = 0
  /\ probe = NoProbe
  /\ isPanning = FALSE
  /\ panStartRef = [x |-> FZero, y |-> FZero]
  /\ pieces = << >>
  /\ batchIndex = 0
  /\ isGameComplete = FALSE
  /\ timer = NoTimer
  /\ drag = NoDrag
  /\ mismatchLine = << >>
  /\ screen = "game"
  /\ completedImageUrl = ""
  /\ completions = 0
  /\ lastBatch = << >>
  /\ lastRelease = NoRelease
  /\ strays = 0

\* what the block puzzle and the viewport hold
blocks == << pieces, batchIndex, isGameComplete, timer, drag, mismatchLine, lastBatch,
             lastRelease, strays, fitTimer, probe, queued, rendered, listening, firedHeld,
             late, urgent >>

\* the completion effect of useSlidingPuzzle after a render with board b and
\* m moves: the flag and one more timeout when the board is solved
SlidingCompletionEffect(b, m, flag) == IsSolved(b) /\ m > 0 /\ ~flag

\* variant: moveTile does not look at where the empty position is
MoveTileUnchecked(position) ==
  /\ screen = "game" /\ slidingHook # "none"
  /\ moves < MaxMoves
  /\ lastTile' = position
  /\ IF board[position] = EMPTY_TILE
       THEN UNCHANGED << board, moves, hasCompleted, slidingTimer >>
       ELSE /\ board' = SwapAt(board, position, GetEmptyPosition(board))
            /\ moves' = moves + 1
            /\ hasCompleted' =
                 (hasCompleted \/ SlidingCompletionEffect(board', moves', hasCompleted))
            /\ slidingTimer' =
                 (slidingTimer \/ SlidingCompletionEffect(board', moves', hasCompleted))
  /\ UNCHANGED << slidingHook, props, panning, viewport, blocks, screen, completedImageUrl,
                  completions >>

\* moveTile(position), with the render and the completion effect
MoveTile(position) ==
  /\ screen = "game" /\ slidingHook # "none"
  /\ moves < MaxMoves
  /\ lastTile' = position
  /\ IF board[position] = EMPTY_TILE \/ ~IsAdjacentToEmpty(board, position)
       THEN UNCHANGED << board, moves, hasCompleted, slidingTimer >>
       ELSE /\ board' = SwapAt(board, position, GetEmptyPosition(board))
            /\ moves' = moves + 1
            /\ hasCompleted' =
                 (hasCompleted \/ SlidingCompletionEffect(board', moves', hasCompleted))
            /\ slidingTimer' =
                 (slidingTimer \/ SlidingCompletionEffect(board', moves', hasCompleted))
  /\ UNCHANGED << slidingHook, props, panning, viewport, blocks, screen, completedImageUrl,
                  completions >>

\* shuffle(): a new board, no moves, the flag down; a pending timeout stays
Shuffle ==
  /\ screen = "game" /\ slidingHook # "none"
  /\ board' \in GeneratedBoards(slidingHook)
  /\ moves' = 0
  /\ hasCompleted' = FALSE
  /\ UNCHANGED << slidingHook, slidingTimer, lastTile, props, panning, viewport, blocks, screen,
                  completedImageUrl, completions >>

\* the timeout of the completion effect: onComplete(imageUrl)
SlidingTimerFires ==
  /\ screen = "game" /\ slidingTimer
  /\ slidingTimer' = FALSE
  /\ completions' = completions + 1
  /\ completedImageUrl' = HandleGameComplete(imageUrl).completedImageUrl
  /\ screen' = HandleGameComplete(imageUrl).screen
  /\ UNCHANGED << slidingHook, board, moves, hasCompleted, lastTile, props, panning, viewport,
                  blocks >>

NextSliding ==
  \/ \E position \in Cells : MoveTile(position)
  \/ Shuffle
  \/ SlidingTimerFires

SpecSliding == InitSliding /\ [][NextSliding]_vars

\* the step is a call of moveTile: it notes a new position or counts a move
MoveTileCalled == lastTile' # lastTile \/ moves' = moves + 1

\* position p is one step above, below, left or right of the empty position
OrthogonalToEmpty(b, p) ==
  \/ Abs(p - GetEmptyPosition(b)) = GRID_SIZE
  \/ /\ Abs(p - GetEmptyPosition(b)) = 1
     /\ p \div GRID_SIZE = GetEmptyPosition(b) \div GRID_SIZE

\* b holds every tile 0..8 once
IsPermutation(b) == DOMAIN b = Cells /\ { b[p] : p \in Cells } = Cells

\* C23: a call of moveTile with a position one step above, below, left or
\* right of the empty position swaps the tile there with the empty one, leaves
\* every other tile, and counts one move; a call with any other position
\* leaves board and count as they are; the board always holds every tile
\* 0..8 once.
C23_MoveValidation ==
  [][/\ MoveTileCalled =>
          IF OrthogonalToEmpty(board, lastTile')
            THEN /\ board'[lastTile'] = EMPTY_TILE
                 /\ board'[GetEmptyPosition(board)] = board[lastTile']
                 /\ \A p \in Cells \ { lastTile', GetEmptyPosition(board) } : board'[p] = board[p]
                 /\ moves' = moves + 1
            ELSE board' = board /\ moves' = moves
     /\ IsPermutation(board')]_vars

\* after two moves a call with the position diagonal to the empty one, which
\* is in the middle, was turned down
C23_Witness ==
  /\ moves = 2
  /\ GetEmptyPosition(board) = 4
  /\ lastTile = 0
  /\ ~IsSolved(board)

\* boards one legal move away from b
LegalMoves(b) ==
  { SwapAt(b, GetEmptyPosition(b), p) :
      p \in { q \in Cells : b[q] # EMPTY_TILE /\ IsAdjacentToEmpty(b, q) } }

\* numbers of moves: every board that can be solved is solved in at most
\* HalfWay + RestOfWay moves
HalfWay == 12
RestOfWay == 19

\* the boards at most k legal moves from those seen, frontier being the ones
\* found last
RECURSIVE WithinMoves(_, _, _)
WithinMoves(frontier, seen, k) ==
  IF frontier = {} \/ k = 0 THEN seen
  ELSE LET next == { c \in UNION { LegalMoves(d) : d \in frontier } : c \notin seen }
       IN  WithinMoves(next, { c \in seen \cup next : TRUE }, k - 1)

\* the boards from which HalfWay legal moves or fewer lead to the solved one:
\* every legal move can be taken back by a legal move
NearSolved == WithinMoves({ SOLVED_STATE }, { SOLVED_STATE }, HalfWay)

\* some board at most k legal moves from those seen is in NearSolved
RECURSIVE LeadsToSolved(_, _, _)
LeadsToSolved(frontier, seen, k) ==
  IF frontier \cap NearSolved # {} THEN TRUE
  ELSE IF frontier = {} \/ k = 0 THEN FALSE
  ELSE LET next == { c \in UNION { LegalMoves(d) : d \in frontier } : c \notin seen }
       IN  LeadsToSolved(next, { c \in seen \cup next : TRUE }, k - 1)

\* legal moves lead from b to the solved board
Solvable(b) == LeadsToSolved({ b }, { b }, RestOfWay)

\* C24: the board of a mounted hook before the first move, at the start and
\* after every shuffle, is not the solved one and legal moves lead from it to
\* the solved one.
C24_ShuffledBoardSolvable ==
  slidingHook # "none" /\ moves = 0 => ~IsSolved(board) /\ Solvable(board)

\* a shuffle after two moves gave a board of the hook that counts inversions
\* from which no HalfWay moves lead to the solved board
C24_Witness ==
  /\ slidingHook = "inversions"
  /\ moves = 0
  /\ lastTile # -1
  /\ board \notin NearSolved

\* pair pr of list positions comes before pair q when the dragged group is
\* scanned in list order and, for each of its pieces, the others in list order
ScannedBefore(pr, q) == pr[1] < q[1] \/ (pr[1] = q[1] /\ pr[2] < q[2])

\* C25: at a release with pairs that pass the neighbour test, some such pair
\* (S, T) is scanned before all others; every piece of the dragged group gets
\* the groupId T had and S is put exactly at its solved place next to T, where
\* T stayed, whatever the distances of the pairs scanned later.
C25_FirstMatchOrder ==
  [][ReleaseStep /\ NeighborPairs # {} =>
       \E pr \in NeighborPairs :
         /\ \A q \in NeighborPairs \ { pr } : ScannedBefore(pr, q)
         /\ \A i \in Indices(pieces) :
              pieces[i].groupId = HeldGroupId => pieces'[i].groupId = pieces[pr[2]].groupId
         /\ pieces'[pr[1]].x = GetExpectedPosition(pieces[pr[2]], pieces[pr[1]].id).x
         /\ pieces'[pr[1]].y = GetExpectedPosition(pieces[pr[2]], pieces[pr[1]].id).y
         /\ StaysPut(pr[2])]_vars

\* piece 2 was released 42 px from its solved place next to piece 1 and 10 px
\* from its solved place next to piece 3, which is a group of its own: it was
\* snapped to piece 1, the first in list order, and is now 50 px from its
\* solved place next to piece 3
C25_Witness ==
  /\ lastRelease.kind = "merged"
  /\ lastRelease.sId = 2 /\ lastRelease.tId = 1
  /\ Cardinality(lastRelease.matched) = 2
  /\ lastRelease.adjustX = -30 /\ lastRelease.adjustY = -30
  /\ PieceById(pieces, 3).groupId # PieceById(pieces, 1).groupId
  /\ Deviation2(PieceById(pieces, 2), PieceById(pieces, 3)) = SNAP_THRESHOLD * SNAP_THRESHOLD

\* ---- group alignment ----

\* piece j lies where the solved image puts it next to piece i
AlignedWith(ps, i, j) ==
  /\ ps[j].x - ps[i].x = (DefOf(ps[j].id).ox - DefOf(ps[i].id).ox) * BLOCK_SIZE
  /\ ps[j].y - ps[i].y = (DefOf(ps[j].id).oy - DefOf(ps[i].id).oy) * BLOCK_SIZE

MaxBatchIndex == 2
\* number of pointer events of a session that come before React has caught up
MaxLate == 1

\* the initial-spawn effect of the mount
SpawnInitial(R) ==
  /\ screen = "game"
  /\ Len(pieces) = 0 /\ batchIndex = 0
  /\ queued = { }
  /\ Len(BatchDefs(0)) > 0
  /\ \E rnd \in [1..Len(BatchDefs(0)) -> R] :
       LET initialPieces == GenerateBatchPieces(0, << >>, rnd)
       IN  /\ pieces' = [i \in 1..Len(initialPieces) |-> AsPieceState(initialPieces[i])]
           /\ lastBatch' = initialPieces
           /\ fitTimer' = [pending |-> TRUE,
                           pieces |-> [i \in 1..Len(initialPieces) |-> AsPieceState(initialPieces[i])]]
  /\ queued' = { "pieces" }
  /\ UNCHANGED << batchIndex, isGameComplete, timer, drag, mismatchLine, props, panning, sliding,
                  screen, completedImageUrl, completions, lastRelease, strays, viewport, probe,
                  rendered, listening, firedHeld, late, urgent >>

\* React renders the queued states; effects of the render before have run
Render ==
  /\ screen = "game"
  /\ queued # { }
  /\ rendered.effects = { }
  /\ rendered' = [pieces |-> pieces, batchIndex |-> batchIndex, effects |-> queued]
  /\ queued' = { }
  /\ UNCHANGED << pieces, batchIndex, isGameComplete, timer, drag, mismatchLine, props, panning,
                  sliding, screen, completedImageUrl, completions, lastBatch, lastRelease, strays,
                  viewport, fitTimer, probe, listening, firedHeld, late, urgent >>

\* the effects of the latest render: the completion effect when pieces is
\* new, spawnNextBatch of this render when batchIndex is new, and the window
\* listeners of this render
FlushEffects(R) ==
  /\ screen = "game"
  /\ rendered.effects # { }
  /\ rendered' = [rendered EXCEPT !.effects = { }]
  /\ listening' = rendered.pieces
  /\ IF "pieces" \in rendered.effects
       THEN /\ timer' = CompletionEffect(rendered.pieces)
            /\ isGameComplete' = CompletionFlag(rendered.pieces, isGameComplete)
       ELSE UNCHANGED << timer, isGameComplete >>
  /\ IF "batchIndex" \in rendered.effects /\ rendered.batchIndex > 0
       THEN \E rnd \in [1..Len(BatchDefs(rendered.batchIndex)) -> R] :
              LET newPieces == GenerateBatchPieces(rendered.batchIndex, rendered.pieces, rnd)
              IN  /\ lastBatch' = newPieces
                  /\ IF Len(newPieces) > 0
                       THEN /\ pieces' = rendered.pieces
                                           \o [i \in 1..Len(newPieces) |-> AsPieceState(newPieces[i])]
                            /\ fitTimer' = [pending |-> TRUE, pieces |-> pieces']
                            /\ queued' = queued \cup { "pieces" }
                       ELSE UNCHANGED << pieces, fitTimer, queued >>
       ELSE UNCHANGED << pieces, lastBatch, fitTimer, queued >>
  /\ urgent' = (urgent /\ queued' # { })
  /\ UNCHANGED << batchIndex, drag, mismatchLine, props, panning, sliding, screen,
                  completedImageUrl, completions, lastRelease, strays, viewport, probe, firedHeld,
                  late >>

\* the callback of the batch timer: setBatchIndex(prev => prev + 1)
BatchTimerCallback ==
  /\ screen = "game"
  /\ timer.kind = "batch" /\ timer.left = 0
  /\ batchIndex < MaxBatchIndex
  /\ ~urgent
  /\ batchIndex' = batchIndex + 1
  /\ timer' = NoTimer
  /\ queued' = queued \cup { "batchIndex" }
  /\ firedHeld' = drag.activeId
  /\ UNCHANGED << pieces, isGameComplete, drag, mismatchLine, props, panning, sliding, screen,
                  completedImageUrl, completions, lastBatch, lastRelease, strays, viewport,
                  fitTimer, probe, rendered, listening, late, urgent >>

\* handlePointerDown of the latest render, on a piece: the hit test and the
\* offsets read the pieces of that render, the z-order is a functional update
HandlePointerDown(wx, wy) ==
  /\ screen = "game"
  /\ drag.activeId = 0
  /\ ClickedIndex(rendered.pieces, wx, wy) # 0
  /\ LET clickedPiece == rendered.pieces[ClickedIndex(rendered.pieces, wx, wy)]
     IN  /\ pieces' = BringToFront(pieces, clickedPiece.groupId)
         /\ drag' = [activeId |-> clickedPiece.id,
                     startPos |-> [x |-> clickedPiece.x, y |-> clickedPiece.y],
                     mouseStart |-> [x |-> wx, y |-> wy],
                     groupOffsets |-> GroupOffsets(rendered.pieces, clickedPiece)]
  /\ queued' = queued \cup { "pieces" }
  /\ urgent' = TRUE
  /\ UNCHANGED << batchIndex, isGameComplete, timer, mismatchLine, props, panning, sliding,
                  screen, completedImageUrl, completions, lastBatch, lastRelease,
                  viewport, fitTimer, probe, rendered, listening, firedHeld >>

\* the registered handlePointerMove: setPieces of a list mapped from the
\* pieces the listener closed over
HandlePointerMove(wx, wy) ==
  /\ screen = "game"
  /\ drag.activeId # 0
  /\ LET newMainPos == [x |-> drag.startPos.x + (wx - drag.mouseStart.x),
                        y |-> drag.startPos.y + (wy - drag.mouseStart.y)]
         updatedPieces == MoveGroup(listening, drag.activeId, drag.groupOffsets, newMainPos)
     IN  /\ pieces' = updatedPieces
         /\ mismatchLine' = MismatchOf(listening, updatedPieces, drag.activeId, drag.groupOffsets)
  /\ queued' = queued \cup { "pieces" }
  /\ urgent' = urgent
  /\ UNCHANGED << batchIndex, isGameComplete, timer, drag, props, panning, sliding, screen,
                  completedImageUrl, completions, lastBatch, lastRelease, viewport,
                  fitTimer, probe, rendered, listening, firedHeld >>

\* the registered handlePointerUp: the scan and the snap read the pieces the
\* listener closed over, the reset of the z-order is a functional update
HandlePointerUp ==
  /\ screen = "game"
  /\ drag.activeId # 0
  /\ isPanning' = FALSE
  /\ mismatchLine' = << >>
  /\ IF ~HasPiece(listening, drag.activeId)
       THEN UNCHANGED << pieces, lastRelease, drag, queued, urgent >>
       ELSE
         LET sourceGroupId == PieceById(listening, drag.activeId).groupId
         IN  /\ IF MatchingPairs(listening, sourceGroupId) # {}
                  THEN LET pr == FirstMatch(listening, sourceGroupId)
                       IN  /\ pieces' = SnapGroup(listening, sourceGroupId,
                                                  listening[pr[1]], listening[pr[2]])
                           /\ lastRelease' =
                                [kind |-> "merged",
                                 sId |-> listening[pr[1]].id,
                                 tId |-> listening[pr[2]].id,
                                 sourceGroupId |-> sourceGroupId,
                                 targetGroupId |-> listening[pr[2]].groupId,
                                 adjustX |-> GetExpectedPosition(listening[pr[2]],
                                                                 listening[pr[1]].id).x
                                               - listening[pr[1]].x,
                                 adjustY |-> GetExpectedPosition(listening[pr[2]],
                                                                 listening[pr[1]].id).y
                                               - listening[pr[1]].y,
                                 matched |-> { listening[q[2]].groupId :
                                                 q \in MatchingPairs(listening, sourceGroupId) }]
                  ELSE /\ pieces' = ResetZ(pieces, sourceGroupId)
                       /\ lastRelease' = [NoRelease EXCEPT !.kind = "kept",
                                                           !.sourceGroupId = sourceGroupId]
             /\ drag' = NoDrag
             /\ queued' = queued \cup { "pieces" }
             /\ urgent' = TRUE
  /\ UNCHANGED << batchIndex, isGameComplete, timer, panStartRef, props, sliding, screen,
                  completedImageUrl, completions, lastBatch, viewport, fitTimer, probe,
                  rendered, listening, firedHeld >>

\* the player goes by the latest render: for the last piece on the screen that
\* is not welded to the first one yet, and for the first one when all are
NextToWeld ==
  LET loose == { i \in Indices(rendered.pieces) :
                   rendered.pieces[i].groupId # rendered.pieces[1].groupId }
  IN  IF loose = {} THEN 1 ELSE CHOOSE i \in loose : \A j \in loose : j <= i

Press ==
  /\ Len(rendered.pieces) > 0
  /\ strays' = strays
  /\ \E o \in ClickOffsets :
       HandlePointerDown(rendered.pieces[NextToWeld].x + o[1],
                         rendered.pieces[NextToWeld].y + o[2])

\* the held piece is welded to the first piece of the latest render
HoldsFirstGroup ==
  drag.activeId \in
    { rendered.pieces[i].id :
        i \in { k \in Indices(rendered.pieces) :
                  rendered.pieces[k].groupId = rendered.pieces[1].groupId } }

\* the pointer brings the held piece near its solved place next to the first
\* piece, or moves the group of the first piece aside
Aim ==
  IF HoldsFirstGroup
    THEN { [x |-> drag.mouseStart.x + n[1], y |-> drag.mouseStart.y + n[2]] : n \in Nudges }
    ELSE { [x |-> drag.mouseStart.x
                    + (GetExpectedPosition(rendered.pieces[1], drag.activeId).x + j[1]
                         - drag.startPos.x),
            y |-> drag.mouseStart.y
                    + (GetExpectedPosition(rendered.pieces[1], drag.activeId).y + j[2]
                         - drag.startPos.y)] : j \in NearJitters }

Pull ==
  /\ Len(rendered.pieces) > 0
  /\ drag.activeId # 0
  /\ HoldsFirstGroup => strays < MaxStrays
  /\ \E a \in Aim : HandlePointerMove(a.x, a.y)
  /\ strays' = IF HoldsFirstGroup THEN strays + 1 ELSE strays

Release ==
  /\ HandlePointerUp
  /\ strays' = strays

InitRace == Mounted(NumDefs, { "img-a" }, { Desktop })

\* every state set has been rendered and the effects of the render have run
Settled == queued = { } /\ rendered.effects = { }

\* a pointer event that finds React up to date
InTime(event) ==
  /\ Settled
  /\ event
  /\ late' = late

\* a pointer event that comes before the render or the effects it follows
Early(event) ==
  /\ ~Settled
  /\ ~urgent
  /\ late < MaxLate
  /\ event
  /\ late' = late + 1

\* the callback of the completion timer
CompleteTimerCallback ==
  /\ ~urgent
  /\ CompleteTimerFires

\* a render and its effects take less than a tick of the clock
SettledTick == Settled /\ Tick

NextRace ==
  \/ SpawnInitial(SessionRandSteps)
  \/ Render
  \/ FlushEffects(SessionRandSteps)
  \/ SettledTick
  \/ BatchTimerCallback
  \/ CompleteTimerCallback
  \/ InTime(Press)
  \/ InTime(Pull)
  \/ InTime(Release)
  \/ Early(Press)
  \/ Early(Pull)
  \/ Early(Release)

SpecRace == InitRace /\ [][NextRace]_vars

\* the list holds the pieces of the batches 0..batchIndex, each of them once
AllSpawnedOnce ==
  /\ { pieces[i].id : i \in Indices(pieces) }
       = { pieceDefinitions[k].id :
             k \in 1..Min((batchIndex + 1) * BATCH_SIZE, Len(pieceDefinitions)) }
  /\ \A i, j \in Indices(pieces) : pieces[i].id = pieces[j].id => i = j

\* C27: when the batch timer has fired while a piece was held, then however
\* the spawn falls between the pointer handlers, the spawn moves no piece that
\* is on the table (the dragged group keeps its dragged position), and once
\* renders and effects have caught up the list holds every piece of every
\* batch up to batchIndex exactly once (no piece lost, no batch skipped or
\* spawned twice).
C27_SpawnWhileHeld ==
  [][/\ firedHeld' # 0 /\ Len(pieces') > Len(pieces)
          => \A i \in Indices(pieces) : /\ pieces'[i].id = pieces[i].id
                                         /\ pieces'[i].x = pieces[i].x
                                         /\ pieces'[i].y = pieces[i].y
     /\ firedHeld' # 0 /\ Settled' => AllSpawnedOnce']_vars

\* ------------------------------------------- the pointer without a piece
\* world points with no piece on them, and client points of pointer moves
BackgroundPoints == { << -900, -900 >> }
PanPoints == { << 500, 400 >> }

\* handlePointerDown with the primary button on the background
PointerDownBackground(wx, wy) ==
  /\ screen = "game"
  /\ drag.activeId = 0
  /\ ~isPanning
  /\ ClickedIndex(pieces, wx, wy) = 0
  /\ isPanning' = TRUE
  /\ panStartRef' =
       [x |-> FSub(WorldToScreen([x |-> FromInt(wx), y |-> FromInt(wy)], pan, zoom).x, pan.x),
        y |-> FSub(WorldToScreen([x |-> FromInt(wx), y |-> FromInt(wy)], pan, zoom).y, pan.y)]
  /\ UNCHANGED << pieces, batchIndex, isGameComplete, timer, drag, mismatchLine, props, sliding,
                  react, screen, completedImageUrl, completions, lastBatch, lastRelease, strays,
                  viewport, fitTimer, probe >>

\* handlePointerMove while no piece is held: the view follows the pointer
\* while the background is dragged, and else the handler returns
PointerMoveFree(clientX, clientY) ==
  /\ screen = "game"
  /\ drag.activeId = 0
  /\ gestures < MaxGestures
  /\ gestures' = gestures + 1
  /\ lastGesture' = [kind |-> "pointermove", anchor |-> << clientX, clientY >>]
  /\ pan' = IF isPanning
              THEN [x |-> FSub(FromInt(clientX), panStartRef.x),
                    y |-> FSub(FromInt(clientY), panStartRef.y)]
              ELSE pan
  /\ UNCHANGED << pieces, batchIndex, isGameComplete, timer, drag, mismatchLine, props, panning,
                  sliding, react, screen, completedImageUrl, completions, lastBatch, lastRelease,
                  strays, zoom, isAnimating, touchStateRef, window, fitTimer, probe >>

\* handlePointerUp while no piece is held
PointerUpFree ==
  /\ screen = "game"
  /\ drag.activeId = 0
  /\ isPanning
  /\ isPanning' = FALSE
  /\ UNCHANGED << pieces, batchIndex, isGameComplete, timer, drag, mismatchLine, props,
                  panStartRef, sliding, react, screen, completedImageUrl, completions, lastBatch,
                  lastRelease, strays, viewport, fitTimer, probe >>

\* one pointer: it goes down on a piece only when it is up
DownOnPiece == ~isPanning /\ Down
DownOnBackground == \E b \in BackgroundPoints : PointerDownBackground(b[1], b[2])
MoveFree == \E c \in PanPoints : PointerMoveFree(c[1], c[2])

NextRelease ==
  \/ InitialSpawn(SessionRandSteps)
  \/ DownOnPiece
  \/ MoveNear
  \/ PointerUp
  \/ DownOnBackground
  \/ MoveFree
  \/ PointerUpFree

SpecRelease == Init /\ [][NextRelease]_vars

\* ------------------------------------------------- the mismatch feedback
\* number of pointer moves of a session that put the held piece onto another
MaxOnto == 2
\* the pieces that the session picks up, and the pieces it puts them onto
HeldIds == { 1, 4 }
OntoIds == { 1, 3 }
\* where the held piece's corner is put relative to the corner of another
\* piece: well inside the mismatch radius, at exactly the radius, and inside
\* the radius at a place that is next to the solved place of piece 4 beside
\* piece 3
OntoOffsets == { << 10, 10 >>, << 90, 120 >>, << 130, 0 >> }

\* the pointer position that puts the held piece at offset o from piece i
Onto(i, o) ==
  [x |-> drag.mouseStart.x + (pieces[i].x + o[1] - drag.startPos.x),
   y |-> drag.mouseStart.y + (pieces[i].y + o[2] - drag.startPos.y)]

DownOnHeld ==
  /\ ~isPanning
  /\ \E i \in Indices(pieces), o \in ClickOffsets :
       /\ pieces[i].id \in HeldIds
       /\ PointerDown(pieces[i].x + o[1], pieces[i].y + o[2])

MoveOnto ==
  /\ drag.activeId # 0
  /\ strays < MaxOnto
  /\ \E i \in Others, o \in OntoOffsets :
       /\ pieces[i].id \in OntoIds
       /\ PointerMove(Onto(i, o).x, Onto(i, o).y)
  /\ strays' = strays + 1

\* a session of the first batch in which pieces are put onto one another and
\* released, and the background is pressed and released in between
NextMismatch ==
  \/ InitialSpawn(SessionRandSteps)
  \/ DownOnHeld
  \/ MoveOnto
  \/ PointerUp
  \/ DownOnBackground
  \/ PointerUpFree

SpecMismatch == InitBatch /\ [][NextMismatch]_vars

\* C28: a pointer-up that follows a pointer-down on a piece leaves no drag
\* active: the active piece id and the stored offsets are cleared and the
\* panning flag is false; and as long as no piece is held (until the next
\* pointer-down on a piece) no step, pointer moves included, changes the
\* position of a piece.
C28_ReleaseFinalizesDrag ==
  [][/\ PointerUp => /\ drag'.activeId = 0
                     /\ drag'.groupOffsets = << >>
                     /\ isPanning' = FALSE
     /\ drag.activeId = 0 /\ drag'.activeId = 0
          => \A i \in Indices(pieces) : /\ pieces'[i].id = pieces[i].id
                                        /\ pieces'[i].x = pieces[i].x
                                        /\ pieces'[i].y = pieces[i].y]_vars

\* after a release that merged, the pointer has moved with no piece held,
\* and the background has been dragged and let go
C28_Witness ==
  /\ lastRelease.kind = "merged"
  /\ drag.activeId = 0
  /\ lastGesture.kind = "pointermove"
  /\ gestures >= 2
  /\ ~isPanning
  /\ pan.x # FZero

\* C29: after every pointer release the mismatch signal is null, whether the
\* release merged or not; it becomes non-null only by a drag update (a
\* pointer move while a piece is held), and it is never non-null while no
\* piece is held.
C29_MismatchClearedOnRelease ==
  [][/\ PointerUp \/ PointerUpFree => mismatchLine' = << >>
     /\ mismatchLine = << >> /\ mismatchLine' # << >>
          => /\ drag.activeId # 0
             /\ drag' = drag
             /\ \E i \in Indices(pieces) : pieces'[i].id = drag.activeId
     /\ mismatchLine' # << >> => drag'.activeId # 0]_vars

\* the signal is shown during a drag that follows a release without a merge,
\* and the release that comes next merges the held piece
C29_Witness ==
  /\ mismatchLine # << >>
  /\ drag.activeId # 0
  /\ lastRelease.kind = "kept"
  /\ MatchingPairs(pieces, PieceById(pieces, drag.activeId).groupId) # {}

\* the pieces outside the group of the held piece that are closer than the
\* mismatch radius to it, corner to corner, and fail the neighbour test with it
WrongAndClose(ps, activeId) ==
  LET a == PieceById(ps, activeId)
  IN  { i \in Indices(ps) :
          /\ ps[i].groupId # a.groupId
          /\ (a.x - ps[i].x) * (a.x - ps[i].x) + (a.y - ps[i].y) * (a.y - ps[i].y)
               < MISMATCH_RADIUS * MISMATCH_RADIUS
          /\ ~AreNeighbors(a, ps[i]) }

\* the centre of the bounding box of a piece
BoxCentre(p) ==
  [x |-> p.x + (DefOf(p.id).width * BLOCK_SIZE) \div 2,
   y |-> p.y + (DefOf(p.id).height * BLOCK_SIZE) \div 2]

\* C30: after each drag update the mismatch signal is non-null exactly when
\* some piece outside the dragged group is within 150px of the held piece and
\* fails the neighbour test with it; a non-null signal holds the centres of
\* the bounding boxes of the held piece and of the first such piece in list
\* order, so it names no member of the dragged group and no pair that passes
\* the neighbour test.
C30_MismatchFeedback ==
  [][MoveOnto =>
       LET wrong == WrongAndClose(pieces', drag.activeId)
       IN  /\ (mismatchLine' # << >>) <=> (wrong # {})
           /\ wrong # {} =>
                 /\ mismatchLine'[1] = BoxCentre(PieceById(pieces', drag.activeId))
                 /\ \E i \in wrong :
                      /\ \A j \in wrong : i <= j
                      /\ mismatchLine'[2] = BoxCentre(pieces'[i])]_vars

\* two pieces are close to the held piece and fail the neighbour test, the
\* one named is the first of them in the list and not the closest
C30_Witness ==
  /\ drag.activeId # 0
  /\ mismatchLine # << >>
  /\ strays > 0
  /\ LET wrong == WrongAndClose(pieces, drag.activeId)
         a == PieceById(pieces, drag.activeId)
     IN  \E i \in wrong, j \in wrong :
           /\ i < j
           /\ mismatchLine[2] = BoxCentre(pieces[i])
           /\ mismatchLine[2] # BoxCentre(pieces[j])
           /\ (a.x - pieces[j].x) * (a.x - pieces[j].x) + (a.y - pieces[j].y) * (a.y - pieces[j].y)
                < (a.x - pieces[i].x) * (a.x - pieces[i].x) + (a.y - pieces[i].y) * (a.y - pieces[i].y)

\* --------------------------------------------------------- pan gestures
\* pairs of touches that are 100 apart, around different midpoints
PanTouchPairs ==
  { << [x |-> 100, y |-> 100], [x |-> 160, y |-> 180] >>,
    << [x |-> 300, y |-> 200], [x |-> 360, y |-> 280] >> }

TouchStartPan == \E t \in PanTouchPairs : HandleTouchStart(t[1], t[2])
TouchMovePan == \E t \in PanTouchPairs : HandleTouchMove(t[1], t[2])

\* a session in which the view is zoomed with the wheel, the background is
\* dragged with one pointer, and two fingers that keep their distance move
NextPan ==
  \/ InitialSpawn(SessionRandSteps)
  \/ Wheel
  \/ DownOnBackground
  \/ MoveFree
  \/ PointerUpFree
  \/ TouchStartPan
  \/ TouchMovePan
  \/ HandleTouchEnd

SpecPan == Init /\ [][NextPan]_vars

\* a pointer move while the background is dragged
BackgroundDragStep ==
  /\ isPanning /\ drag.activeId = 0
  /\ gestures' = gestures + 1
  /\ lastGesture'.kind = "pointermove"

\* a move of two touches that are as far apart as at the event before
TwoFingerPanStep ==
  /\ touchStateRef.isPanning
  /\ gestures' = gestures + 1
  /\ lastGesture'.kind \in { "pinch", "touchmove" }
  /\ Truthy(touchStateRef.lastDistance)
  /\ touchStateRef'.lastDistance = touchStateRef.lastDistance

\* C31: while the background is dragged with one pointer, and while two
\* touches move without a change of their distance, pan is the pan of the
\* start of the gesture plus the displacement on the screen of the pointer
\* (of the midpoint of the touches) since then, and zoom and the pieces stay
\* as they are.  The handlers keep the start as the pointer (midpoint) minus
\* the pan of that moment in panStartRef and touchStateRef.panStart.
C31_PanFollowsGesture ==
  [][/\ BackgroundDragStep
          => /\ pan' = [x |-> FSub(FromInt(lastGesture'.anchor[1]), panStartRef.x),
                        y |-> FSub(FromInt(lastGesture'.anchor[2]), panStartRef.y)]
             /\ zoom' = zoom
             /\ pieces' = pieces
     /\ TwoFingerPanStep
          => /\ pan' = [x |-> FSub(touchStateRef'.lastCenter.x, touchStateRef.panStart.x),
                        y |-> FSub(touchStateRef'.lastCenter.y, touchStateRef.panStart.y)]
             /\ zoom' = zoom
             /\ pieces' = pieces]_vars

\* --------------------------------------------------------- spawn geometry
\* bounding rectangle of a placed piece
BoundingRect(g) ==
  [x |-> g.x, y |-> g.y,
   w |-> DefOf(g.id).width * BLOCK_SIZE, h |-> DefOf(g.id).height * BLOCK_SIZE]

\* a rectangle grown by the margin to the left, right, top and bottom
GrownRect(r) ==
  [x |-> r.x - MARGIN, y |-> r.y - MARGIN, w |-> r.w + 2 * MARGIN, h |-> r.h + 2 * MARGIN]

\* C32: a piece that a probing attempt placed keeps the margin to every
\* rectangle placed before it, on all four sides: its bounding rectangle
\* grown by the margin to the left, right, top and bottom overlaps the
\* bounding rectangle of no earlier piece of the batch.
C32_MarginOnAllSides ==
  \A i, j \in 1..Len(lastBatch) :
    (j < i /\ ~lastBatch[i].fallback)
      => ~RectsOverlap(GrownRect(BoundingRect(lastBatch[i])), BoundingRect(lastBatch[j]))

\* C33: the bounding rectangle of a piece that a spawn adds overlaps neither
\* the rectangle of a piece that was on the table before the spawn nor the
\* rectangle of a piece placed earlier in the same batch.
C33_SpawnedRectsDisjoint ==
  [][Len(pieces') > Len(pieces)
       => \A i \in (Len(pieces) + 1)..Len(pieces') :
            /\ \A j \in Indices(pieces) :
                 ~RectsOverlap(BoundingRect(pieces'[i]), BoundingRect(pieces[j]))
            /\ \A j \in (Len(pieces) + 1)..(i - 1) :
                 ~RectsOverlap(BoundingRect(pieces'[i]), BoundingRect(pieces'[j]))]_vars

\* the second batch has just been spawned next to the welded first batch
C33_Witness ==
  /\ batchIndex = 1
  /\ Len(pieces) > BATCH_SIZE
  /\ Len(lastBatch) = Len(pieces) - BATCH_SIZE
  /\ \A i \in 1..Len(lastBatch) :
       /\ pieces[BATCH_SIZE + i].x = lastBatch[i].x
       /\ pieces[BATCH_SIZE + i].y = lastBatch[i].y
       /\ ~lastBatch[i].fallback

\* piece g, the i-th of a batch of n pieces around centre, lies where some
\* attempt a probes when the probing starts at radius startRadius: at
\* startRadius + 20 * a from the centre, in the direction of the a-th half
\* radian after the angle offset of the piece
OnSpiral(g, i, n, centre, startRadius) ==
  \E rnd \in AllRandSteps, a \in 0..(MAX_PLACEMENT_ATTEMPTS - 1) :
    LET k == AngleOffset(i - 1, n, rnd) + 2 * a
        r == startRadius + ATTEMPT_RADIUS_STEP * a
    IN  /\ g.x = centre.x + (COS1000[k + 1] * r) \div 1000
        /\ g.y = centre.y + (SIN1000[k + 1] * r) \div 1000

\* centre of the empty table, on which the first batch is placed
FirstBatchCentre == CalculateCenter(<< >>)

\* C34 as stated: every piece of the very first batch is probed from the base
\* radius 100.
C34_BaseRadiusForFirstBatch ==
  \A i \in 1..Len(lastBatch) :
    ~lastBatch[i].fallback
      => OnSpiral(lastBatch[i], i, Len(lastBatch), FirstBatchCentre, SPAWN_RADIUS_BASE)

\* C34: in the first batch the probing starts at the base radius 100 for the
\* first piece only; a later piece finds the pieces placed before it in the
\* occupied set and starts at max(500, occupiedCount * 50).  Attempt k probes
\* at startRadius + 20 * k from the centre of the batch.
C34_StartRadius ==
  \A i \in 1..Len(lastBatch) :
    ~lastBatch[i].fallback
      => OnSpiral(lastBatch[i], i, Len(lastBatch), FirstBatchCentre,
                  IF i = 1 THEN SPAWN_RADIUS_BASE
                  ELSE Max(MIN_SPAWN_RADIUS, (i - 1) * SPAWN_RADIUS_INCREMENT))

\* the first batch is on the table, and one of its later pieces was not
\* placed by its first attempt
C34_Witness ==
  /\ Len(lastBatch) = BATCH_SIZE
  /\ \A i \in 1..Len(lastBatch) : ~lastBatch[i].fallback
  /\ \E i \in 2..Len(lastBatch) :
       \A rnd \in AllRandSteps :
         LET k == AngleOffset(i - 1, Len(lastBatch), rnd)
         IN  \/ lastBatch[i].x # FirstBatchCentre.x + (COS1000[k + 1] * MIN_SPAWN_RADIUS) \div 1000
             \/ lastBatch[i].y # FirstBatchCentre.y + (SIN1000[k + 1] * MIN_SPAWN_RADIUS) \div 1000

\* ---------------------------------------------------------------- z-order
\* the z-order while a piece is held and while none is held
ZOrderOfDrag ==
  IF drag.activeId # 0 /\ HasPiece(pieces, drag.activeId)
    THEN \A i \in Indices(pieces) :
           IF pieces[i].groupId = PieceById(pieces, drag.activeId).groupId
             THEN pieces[i].zIndex = Z_DRAGGED
             ELSE pieces[i].zIndex <= Z_DEMOTED
    ELSE \A i \in Indices(pieces) : pieces[i].zIndex # Z_DRAGGED

FullPuzzleGroup ==
  /\ Len(pieces) = Len(pieceDefinitions)
  /\ Len(pieces) > 0
  /\ \A i, j \in Indices(pieces) : pieces[i].groupId = pieces[j].groupId

\* C36: the locked flag of a piece is true once its group is the group of
\* the full puzzle, and false before.
C36_LockedWhenComplete ==
  \A i \in Indices(pieces) : pieces[i].isLocked <=> FullPuzzleGroup

\* --------------------------------------------------------------- hit test
\* a pointer-down that picks up a piece
PicksUp == drag.activeId = 0 /\ drag'.activeId # 0

\* C37: the piece that a pointer-down picks up has the highest z-index among
\* the pieces whose bounding box contains the pointer.
C37_HitTestPicksTopPiece ==
  [][PicksUp =>
       \A j \in Indices(pieces) :
         Contains(pieces[j], drag'.mouseStart.x, drag'.mouseStart.y)
           => pieces[j].zIndex <= PieceById(pieces, drag'.activeId).zIndex]_vars

\* ------------------------------------------------------ group identifiers
\* every groupId in use is the id of a piece of that group
GroupNamedAfterMember ==
  \A i \in Indices(pieces) :
    \E j \in Indices(pieces) : /\ pieces[j].id = pieces[i].groupId
                                /\ pieces[j].groupId = pieces[i].groupId

\* C38: each groupId in use is the id of a spawned piece that belongs to that
\* group; a spawned piece shares its groupId with no piece that was on the
\* table before, and a spawn of k pieces raises the number of groups by k.
C38_GroupIdIsMemberId ==
  [][/\ GroupNamedAfterMember'
     /\ Len(pieces') > Len(pieces) =>
          /\ \A i \in (Len(pieces) + 1)..Len(pieces') :
               /\ pieces'[i].groupId = pieces'[i].id
               /\ \A j \in Indices(pieces) : pieces[j].groupId # pieces'[i].groupId
          /\ Cardinality(GroupIds(pieces')) =
               Cardinality(GroupIds(pieces)) + (Len(pieces') - Len(pieces))]_vars

\* the second batch is on the table beside the first, which is welded into
\* a group that took its identifier from the target of the last merge
C38_Witness ==
  /\ Len(pieces) > BATCH_SIZE
  /\ Cardinality(GroupIds(pieces)) = 1 + (Len(pieces) - BATCH_SIZE)
  /\ lastRelease.kind = "merged"
  /\ pieces[1].groupId = lastRelease.targetGroupId
  /\ pieces[1].groupId # pieces[1].id

\* ------------------------------------------------------------ no dead end
\* the values a pending timer passes through on the clock of the model
TimerLevels ==
  { l \in { d - n * TickMs : d \in { BATCH_DELAY_MS, COMPLETE_DELAY_MS },
                             n \in 0..(COMPLETE_DELAY_MS \div TickMs) } : l > 0 }

\* the clock moves while the timer stands at l
TickAt(l) == Tick /\ timer.left = l

\* the step of Down on a piece outside the group of the first piece, seen on
\* the drag state alone: it is enabled where that Down is, and a step of the
\* session that changes drag as it says is that Down
PressOutside ==
  /\ screen = "game"
  /\ drag.activeId = 0
  /\ \E i \in Indices(pieces), o \in ClickOffsets :
       LET wx == pieces[i].x + o[1]
           wy == pieces[i].y + o[2]
           c == ClickedIndex(pieces, wx, wy)
       IN  /\ c # 0
           /\ pieces[c].groupId # pieces[1].groupId
           /\ drag' = [activeId |-> pieces[c].id,
                       startPos |-> [x |-> pieces[c].x, y |-> pieces[c].y],
                       mouseStart |-> [x |-> wx, y |-> wy],
                       groupOffsets |-> GroupOffsets(pieces, pieces[c])]

\* the step of MoveToFirst, seen on the piece list alone
Approach ==
  /\ screen = "game"
  /\ drag.activeId # 0
  /\ 1 \in Others
  /\ \E j \in NearJitters :
       pieces' = MoveGroup(pieces, drag.activeId, drag.groupOffsets,
                           [x |-> drag.startPos.x + (Towards(1, j).x - drag.mouseStart.x),
                            y |-> drag.startPos.y + (Towards(1, j).y - drag.mouseStart.y)])

\* the step of PointerUp, seen on the drag state alone
LetGo ==
  /\ screen = "game"
  /\ drag.activeId # 0
  /\ drag' = NoDrag

\* a player who wants to finish: a piece outside the group of the first piece
\* is pressed again and again as long as there is one, a held piece is brought
\* to its place again and again and is released, and the pointer rests long
\* enough for a pending timer to run out; the callback of a timer that has run
\* out is called by the event loop
Cooperation ==
  /\ \A l \in TimerLevels : SF_vars(TickAt(l))
  /\ SF_batchIndex(BatchAdvance)
  /\ SF_vars(CompleteTimerFires)
  /\ SF_drag(PressOutside)
  /\ SF_pieces(Approach)
  /\ WF_drag(LetGo)

\* the session of several batches, in which the player is free to press any
\* piece and to release it anywhere on its way, with that player
SpecNoDeadEnd == InitBatch /\ [][NextProgress]_vars /\ Cooperation

CeilDiv(a, b) == (a + b - 1) \div b

\* the progress record of useGamePieces for the state the next render shows
\* (percentComplete, a quotient of the same two counts, is left out)
Progress ==
  [currentBatch |-> batchIndex + 1,
   totalBatches |-> CeilDiv(Len(pieceDefinitions), BATCH_SIZE),
   piecesPlaced |-> Len(pieces),
   totalPieces |-> Len(pieceDefinitions),
   currentBatchSize |-> Len(pieces)]

\* the initial spawn has run, and every state that was set is rendered with
\* its effects, spawnNextBatch among them
NoSpawnPending ==
  /\ ~(Len(pieces) = 0 /\ batchIndex = 0 /\ Len(pieceDefinitions) > 0)
  /\ queued = { }
  /\ rendered.effects = { }

ProgressInRange ==
  /\ 1 <= Progress.currentBatch
  /\ Progress.currentBatch <= Progress.totalBatches
  /\ Progress.piecesPlaced <= Progress.totalPieces

\* C40: when no spawn is pending the number of pieces on the table is
\* min((batchIndex + 1) * 5, N); batchIndex moves by one and leaves no batch
\* timer behind, so that it moves once per completed batch; and the progress
\* record has 1 <= currentBatch <= totalBatches = ceil(N / 5) and
\* piecesPlaced <= totalPieces.
C40_ProgressConsistency ==
  [][/\ NoSpawnPending' =>
          Len(pieces') = Min((batchIndex' + 1) * BATCH_SIZE, Len(pieceDefinitions))
     /\ batchIndex' # batchIndex =>
          /\ batchIndex' = batchIndex + 1
          /\ timer'.kind # "batch"
     /\ ProgressInRange']_vars
====
